---------------------------- MODULE Spec2Model ----------------------------
(***************************************************************************)
(* Turn-taking engine of the voice-chat examples (src/examples/*.py):      *)
(* capture -> transcription -> reply selection -> synthesis -> playback,   *)
(* the push-to-talk capture worker, and the signal / cleanup lifecycle of  *)
(* clean_exit_voice_chat.py.                                               *)
(*                                                                         *)
(* Text is modelled as a sequence of one-character strings, so that the    *)
(* substring tests, str.lower(), str.split() and str.strip() of the        *)
(* sources are computed rather than assumed.                               *)
(***************************************************************************)
EXTENDS Integers, Sequences, FiniteSets, TLC

-----------------------------------------------------------------------------
(* Bounds of the model.                                                    *)

\* Dispatched (non-exit) turns explored per session.
MaxTurns == 1
\* Signals (SIGINT / SIGTERM, Ctrl+C) delivered per session.
MaxSignals == 2
\* Calls of listen_with_push_to_talk per session; each starts one worker.
MaxWorkers == 2
\* Chunks one push-to-talk worker may append.
MaxChunks == 2

-----------------------------------------------------------------------------
(* Text helpers: Python's `in`, str.lower, str.split, str.strip.           *)

UpperLetters == <<"A","B","C","D","E","F","G","H","I","J","K","L","M",
                  "N","O","P","Q","R","S","T","U","V","W","X","Y","Z">>
LowerLetters == <<"a","b","c","d","e","f","g","h","i","j","k","l","m",
                  "n","o","p","q","r","s","t","u","v","w","x","y","z">>

\* str.lower() on one character.
LowerChar(c) ==
  IF \E i \in 1..26 : UpperLetters[i] = c
  THEN LowerLetters[CHOOSE i \in 1..26 : UpperLetters[i] = c]
  ELSE c

\* str.lower()
Lower(s) == [i \in 1..Len(s) |-> LowerChar(s[i])]

\* k in s  (substring test; the empty string is in every string)
IsSubstr(k, s) ==
  \E i \in 0..(Len(s) - Len(k)) : SubSeq(s, i + 1, i + Len(k)) = k

\* any(k in s for k in keys)
AnyIn(keys, s) == \E j \in 1..Len(keys) : IsSubstr(keys[j], s)

\* str.split(): the maximal runs of non-blank characters, in order.
RECURSIVE SplitFrom(_, _, _)
SplitFrom(s, i, cur) ==
  IF i > Len(s)
  THEN (IF cur = <<>> THEN <<>> ELSE <<cur>>)
  ELSE IF s[i] = " "
       THEN (IF cur = <<>> THEN <<>> ELSE <<cur>>) \o SplitFrom(s, i + 1, <<>>)
       ELSE SplitFrom(s, i + 1, Append(cur, s[i]))

Split(s) == SplitFrom(s, 1, <<>>)

\* str.strip(chars): drop leading and trailing characters that are in chars.
RECURSIVE StripLeft(_, _)
StripLeft(s, chars) ==
  IF s # <<>> /\ s[1] \in chars THEN StripLeft(Tail(s), chars) ELSE s

RECURSIVE StripRight(_, _)
StripRight(s, chars) ==
  IF s # <<>> /\ s[Len(s)] \in chars
  THEN StripRight(SubSeq(s, 1, Len(s) - 1), chars)
  ELSE s

Strip(s, chars) == StripRight(StripLeft(s, chars), chars)

-----------------------------------------------------------------------------
(* The rule tables of the dispatchers.  pick is "single" (one fixed        *)
(* reply), "random" (random.choice over pool replies) or "rotate"          *)
(* (responses[counter % len(responses)]).                                  *)

\* CleanExitRules: the if/elif chain of generate_response (src/examples/clean_exit_voice_chat.py:191-218), in source order.
\* Keywords, in order: 
\*   line 191: 'hello', 'hi', 'hey', 'good morning', 'good afternoon', 'good evening'
\*   line 200: 'what can you do', 'capabilities', 'help', 'what are you'
\*   line 204: 'privacy', 'data', 'cloud', 'offline'
\*   line 208: 'how', 'technology', 'whisper', 'neutts', 'voice'
\*   line 212: 'goodbye', 'bye', 'see you', 'farewell'
CleanExitRules ==
  <<
    [name |-> "greeting", keys |-> << <<"h","e","l","l","o">>, <<"h","i">>, <<"h","e","y">>, <<"g","o","o","d"," ","m","o","r","n","i","n","g">>, <<"g","o","o","d"," ","a","f","t","e","r","n","o","o","n">>, <<"g","o","o","d"," ","e","v","e","n","i","n","g">> >>, pick |-> "rotate", pool |-> 3],
    [name |-> "what can you do", keys |-> << <<"w","h","a","t"," ","c","a","n"," ","y","o","u"," ","d","o">>, <<"c","a","p","a","b","i","l","i","t","i","e","s">>, <<"h","e","l","p">>, <<"w","h","a","t"," ","a","r","e"," ","y","o","u">> >>, pick |-> "single", pool |-> 1],
    [name |-> "privacy", keys |-> << <<"p","r","i","v","a","c","y">>, <<"d","a","t","a">>, <<"c","l","o","u","d">>, <<"o","f","f","l","i","n","e">> >>, pick |-> "single", pool |-> 1],
    [name |-> "how", keys |-> << <<"h","o","w">>, <<"t","e","c","h","n","o","l","o","g","y">>, <<"w","h","i","s","p","e","r">>, <<"n","e","u","t","t","s">>, <<"v","o","i","c","e">> >>, pick |-> "single", pool |-> 1],
    [name |-> "goodbye", keys |-> << <<"g","o","o","d","b","y","e">>, <<"b","y","e">>, <<"s","e","e"," ","y","o","u">>, <<"f","a","r","e","w","e","l","l">> >>, pick |-> "single", pool |-> 1]
  >>

\* EdgeRules: the if/elif chain of generate_response (src/examples/edge_voice_chat.py:164-187), in source order.
\* Keywords, in order: 
\*   line 164: 'hello', 'hi', 'hey', 'good morning', 'good afternoon'
\*   line 167: 'how are you', 'how do you do', "how's it going"
\*   line 170: 'what is your name', 'who are you'
\*   line 173: 'offline', 'local', 'edge', 'privacy'
\*   line 176: 'whisper', 'speech recognition'
\*   line 179: 'time'
\*   line 183: 'goodbye', 'bye', 'quit', 'exit'
EdgeRules ==
  <<
    [name |-> "greeting", keys |-> << <<"h","e","l","l","o">>, <<"h","i">>, <<"h","e","y">>, <<"g","o","o","d"," ","m","o","r","n","i","n","g">>, <<"g","o","o","d"," ","a","f","t","e","r","n","o","o","n">> >>, pick |-> "single", pool |-> 1],
    [name |-> "how are you", keys |-> << <<"h","o","w"," ","a","r","e"," ","y","o","u">>, <<"h","o","w"," ","d","o"," ","y","o","u"," ","d","o">>, <<"h","o","w","'","s"," ","i","t"," ","g","o","i","n","g">> >>, pick |-> "single", pool |-> 1],
    [name |-> "what is your name", keys |-> << <<"w","h","a","t"," ","i","s"," ","y","o","u","r"," ","n","a","m","e">>, <<"w","h","o"," ","a","r","e"," ","y","o","u">> >>, pick |-> "single", pool |-> 1],
    [name |-> "offline", keys |-> << <<"o","f","f","l","i","n","e">>, <<"l","o","c","a","l">>, <<"e","d","g","e">>, <<"p","r","i","v","a","c","y">> >>, pick |-> "single", pool |-> 1],
    [name |-> "whisper", keys |-> << <<"w","h","i","s","p","e","r">>, <<"s","p","e","e","c","h"," ","r","e","c","o","g","n","i","t","i","o","n">> >>, pick |-> "single", pool |-> 1],
    [name |-> "time", keys |-> << <<"t","i","m","e">> >>, pick |-> "single", pool |-> 1],
    [name |-> "goodbye", keys |-> << <<"g","o","o","d","b","y","e">>, <<"b","y","e">>, <<"q","u","i","t">>, <<"e","x","i","t">> >>, pick |-> "single", pool |-> 1]
  >>

\* FastRules: the if/elif chain of generate_response (src/examples/fast_voice_chat.py:95-119), in source order.
\* Keywords, in order: 
\*   line 95: 'hello', 'hi', 'hey'
\*   line 98: 'how are you', 'how do you do'
\*   line 101: 'what', 'who', 'where', 'when', 'why', 'how'
\*   line 104: 'thank', 'thanks'
\*   line 107: 'goodbye', 'bye', 'see you', 'quit', 'exit'
\*   line 110: 'name', 'call'
\*   line 113: 'time', 'clock'
FastRules ==
  <<
    [name |-> "greeting", keys |-> << <<"h","e","l","l","o">>, <<"h","i">>, <<"h","e","y">> >>, pick |-> "single", pool |-> 1],
    [name |-> "how are you", keys |-> << <<"h","o","w"," ","a","r","e"," ","y","o","u">>, <<"h","o","w"," ","d","o"," ","y","o","u"," ","d","o">> >>, pick |-> "single", pool |-> 1],
    [name |-> "what", keys |-> << <<"w","h","a","t">>, <<"w","h","o">>, <<"w","h","e","r","e">>, <<"w","h","e","n">>, <<"w","h","y">>, <<"h","o","w">> >>, pick |-> "single", pool |-> 1],
    [name |-> "thank", keys |-> << <<"t","h","a","n","k">>, <<"t","h","a","n","k","s">> >>, pick |-> "single", pool |-> 1],
    [name |-> "goodbye", keys |-> << <<"g","o","o","d","b","y","e">>, <<"b","y","e">>, <<"s","e","e"," ","y","o","u">>, <<"q","u","i","t">>, <<"e","x","i","t">> >>, pick |-> "single", pool |-> 1],
    [name |-> "name", keys |-> << <<"n","a","m","e">>, <<"c","a","l","l">> >>, pick |-> "single", pool |-> 1],
    [name |-> "time", keys |-> << <<"t","i","m","e">>, <<"c","l","o","c","k">> >>, pick |-> "single", pool |-> 1]
  >>

\* FixedEdgeRules: the if/elif chain of generate_better_response (src/examples/fixed_edge_voice_chat.py:180-256), in source order.
\* Keywords, in order: 
\*   line 180: 'hello', 'hi', 'hey', 'good morning', 'good afternoon', 'good evening'
\*   line 187: 'how are you', 'how do you do', "how's it going", "what's up"
\*   line 191: 'what is your name', 'who are you', "what's your name"
\*   line 195: 'time', 'clock', 'hour'
\*   line 200: 'work', 'job', 'career', 'office'
\*   line 204: 'family', 'parents', 'mother', 'father', 'kids'
\*   line 208: 'hobby', 'sport', 'music', 'art', 'reading', 'gaming'
\*   line 212: 'food', 'eat', 'restaurant', 'cooking'
\*   line 216: 'weather', 'rain', 'sunny', 'cloudy'
\*   line 220: 'computer', 'phone', 'ai', 'technology'
\*   line 224: 'happy', 'excited', 'great', 'wonderful', 'awesome'
\*   line 228: 'sad', 'upset', 'tired', 'worried', 'stressed'
\*   line 232: 'thank', 'thanks', 'thank you'
\*   line 236: 'goodbye', 'bye', 'see you', 'farewell', 'quit', 'exit'
\*   line 243: 'what', 'who', 'where', 'when', 'why', 'how'
\*   line 247: 'yes', 'yeah', 'yep', 'sure'
\*   line 250: 'no', 'nope', 'nah'
FixedEdgeRules ==
  <<
    [name |-> "greeting", keys |-> << <<"h","e","l","l","o">>, <<"h","i">>, <<"h","e","y">>, <<"g","o","o","d"," ","m","o","r","n","i","n","g">>, <<"g","o","o","d"," ","a","f","t","e","r","n","o","o","n">>, <<"g","o","o","d"," ","e","v","e","n","i","n","g">> >>, pick |-> "single", pool |-> 1],
    [name |-> "how are you", keys |-> << <<"h","o","w"," ","a","r","e"," ","y","o","u">>, <<"h","o","w"," ","d","o"," ","y","o","u"," ","d","o">>, <<"h","o","w","'","s"," ","i","t"," ","g","o","i","n","g">>, <<"w","h","a","t","'","s"," ","u","p">> >>, pick |-> "single", pool |-> 1],
    [name |-> "what is your name", keys |-> << <<"w","h","a","t"," ","i","s"," ","y","o","u","r"," ","n","a","m","e">>, <<"w","h","o"," ","a","r","e"," ","y","o","u">>, <<"w","h","a","t","'","s"," ","y","o","u","r"," ","n","a","m","e">> >>, pick |-> "single", pool |-> 1],
    [name |-> "time", keys |-> << <<"t","i","m","e">>, <<"c","l","o","c","k">>, <<"h","o","u","r">> >>, pick |-> "single", pool |-> 1],
    [name |-> "work", keys |-> << <<"w","o","r","k">>, <<"j","o","b">>, <<"c","a","r","e","e","r">>, <<"o","f","f","i","c","e">> >>, pick |-> "single", pool |-> 1],
    [name |-> "family", keys |-> << <<"f","a","m","i","l","y">>, <<"p","a","r","e","n","t","s">>, <<"m","o","t","h","e","r">>, <<"f","a","t","h","e","r">>, <<"k","i","d","s">> >>, pick |-> "single", pool |-> 1],
    [name |-> "hobby", keys |-> << <<"h","o","b","b","y">>, <<"s","p","o","r","t">>, <<"m","u","s","i","c">>, <<"a","r","t">>, <<"r","e","a","d","i","n","g">>, <<"g","a","m","i","n","g">> >>, pick |-> "single", pool |-> 1],
    [name |-> "food", keys |-> << <<"f","o","o","d">>, <<"e","a","t">>, <<"r","e","s","t","a","u","r","a","n","t">>, <<"c","o","o","k","i","n","g">> >>, pick |-> "single", pool |-> 1],
    [name |-> "weather", keys |-> << <<"w","e","a","t","h","e","r">>, <<"r","a","i","n">>, <<"s","u","n","n","y">>, <<"c","l","o","u","d","y">> >>, pick |-> "single", pool |-> 1],
    [name |-> "computer", keys |-> << <<"c","o","m","p","u","t","e","r">>, <<"p","h","o","n","e">>, <<"a","i">>, <<"t","e","c","h","n","o","l","o","g","y">> >>, pick |-> "single", pool |-> 1],
    [name |-> "happy", keys |-> << <<"h","a","p","p","y">>, <<"e","x","c","i","t","e","d">>, <<"g","r","e","a","t">>, <<"w","o","n","d","e","r","f","u","l">>, <<"a","w","e","s","o","m","e">> >>, pick |-> "single", pool |-> 1],
    [name |-> "sad", keys |-> << <<"s","a","d">>, <<"u","p","s","e","t">>, <<"t","i","r","e","d">>, <<"w","o","r","r","i","e","d">>, <<"s","t","r","e","s","s","e","d">> >>, pick |-> "single", pool |-> 1],
    [name |-> "thank", keys |-> << <<"t","h","a","n","k">>, <<"t","h","a","n","k","s">>, <<"t","h","a","n","k"," ","y","o","u">> >>, pick |-> "single", pool |-> 1],
    [name |-> "goodbye", keys |-> << <<"g","o","o","d","b","y","e">>, <<"b","y","e">>, <<"s","e","e"," ","y","o","u">>, <<"f","a","r","e","w","e","l","l">>, <<"q","u","i","t">>, <<"e","x","i","t">> >>, pick |-> "single", pool |-> 1],
    [name |-> "what", keys |-> << <<"w","h","a","t">>, <<"w","h","o">>, <<"w","h","e","r","e">>, <<"w","h","e","n">>, <<"w","h","y">>, <<"h","o","w">> >>, pick |-> "single", pool |-> 1],
    [name |-> "yes", keys |-> << <<"y","e","s">>, <<"y","e","a","h">>, <<"y","e","p">>, <<"s","u","r","e">> >>, pick |-> "single", pool |-> 1],
    [name |-> "no", keys |-> << <<"n","o">>, <<"n","o","p","e">>, <<"n","a","h">> >>, pick |-> "single", pool |-> 1]
  >>

\* ImprovedRules: the if/elif chain of generate_response (src/examples/improved_voice_chat.py:133-187), in source order.
\* Keywords, in order: 
\*   line 133: 'hello', 'hi', 'hey', 'good morning', 'good afternoon', 'good evening'
\*   line 136: 'how are you', 'how do you do', "how's it going", "what's up"
\*   line 139: 'what is your name', 'who are you', "what's your name"
\*   line 142: 'what time is it', "what's the time", 'time'
\*   line 146: 'what', 'who', 'where', 'when', 'why', 'how'
\*   line 149: 'thank', 'thanks', 'thank you'
\*   line 152: 'goodbye', 'bye', 'see you', 'farewell', 'quit', 'exit'
\*   line 155: 'weather', 'sunny', 'rainy', 'cloudy', 'temperature'
\*   line 158: 'help', 'assistance', 'support'
\*   line 161: 'yes', 'yeah', 'yep', 'sure', 'okay', 'ok'
\*   line 164: 'no', 'nope', 'nah', 'not really'
\*   line 167: 'maybe', 'perhaps', 'possibly'
\*   line 170: 'good', 'great', 'awesome', 'excellent', 'wonderful'
\*   line 173: 'bad', 'terrible', 'awful', 'horrible'
\*   line 176: 'tired', 'exhausted', 'sleepy'
\*   line 179: 'happy', 'excited', 'joyful', 'cheerful'
\*   line 182: 'sad', 'upset', 'disappointed'
ImprovedRules ==
  <<
    [name |-> "greeting", keys |-> << <<"h","e","l","l","o">>, <<"h","i">>, <<"h","e","y">>, <<"g","o","o","d"," ","m","o","r","n","i","n","g">>, <<"g","o","o","d"," ","a","f","t","e","r","n","o","o","n">>, <<"g","o","o","d"," ","e","v","e","n","i","n","g">> >>, pick |-> "single", pool |-> 1],
    [name |-> "how are you", keys |-> << <<"h","o","w"," ","a","r","e"," ","y","o","u">>, <<"h","o","w"," ","d","o"," ","y","o","u"," ","d","o">>, <<"h","o","w","'","s"," ","i","t"," ","g","o","i","n","g">>, <<"w","h","a","t","'","s"," ","u","p">> >>, pick |-> "single", pool |-> 1],
    [name |-> "what is your name", keys |-> << <<"w","h","a","t"," ","i","s"," ","y","o","u","r"," ","n","a","m","e">>, <<"w","h","o"," ","a","r","e"," ","y","o","u">>, <<"w","h","a","t","'","s"," ","y","o","u","r"," ","n","a","m","e">> >>, pick |-> "single", pool |-> 1],
    [name |-> "what time is it", keys |-> << <<"w","h","a","t"," ","t","i","m","e"," ","i","s"," ","i","t">>, <<"w","h","a","t","'","s"," ","t","h","e"," ","t","i","m","e">>, <<"t","i","m","e">> >>, pick |-> "single", pool |-> 1],
    [name |-> "what", keys |-> << <<"w","h","a","t">>, <<"w","h","o">>, <<"w","h","e","r","e">>, <<"w","h","e","n">>, <<"w","h","y">>, <<"h","o","w">> >>, pick |-> "single", pool |-> 1],
    [name |-> "thank", keys |-> << <<"t","h","a","n","k">>, <<"t","h","a","n","k","s">>, <<"t","h","a","n","k"," ","y","o","u">> >>, pick |-> "single", pool |-> 1],
    [name |-> "goodbye", keys |-> << <<"g","o","o","d","b","y","e">>, <<"b","y","e">>, <<"s","e","e"," ","y","o","u">>, <<"f","a","r","e","w","e","l","l">>, <<"q","u","i","t">>, <<"e","x","i","t">> >>, pick |-> "single", pool |-> 1],
    [name |-> "weather", keys |-> << <<"w","e","a","t","h","e","r">>, <<"s","u","n","n","y">>, <<"r","a","i","n","y">>, <<"c","l","o","u","d","y">>, <<"t","e","m","p","e","r","a","t","u","r","e">> >>, pick |-> "single", pool |-> 1],
    [name |-> "help", keys |-> << <<"h","e","l","p">>, <<"a","s","s","i","s","t","a","n","c","e">>, <<"s","u","p","p","o","r","t">> >>, pick |-> "single", pool |-> 1],
    [name |-> "yes", keys |-> << <<"y","e","s">>, <<"y","e","a","h">>, <<"y","e","p">>, <<"s","u","r","e">>, <<"o","k","a","y">>, <<"o","k">> >>, pick |-> "single", pool |-> 1],
    [name |-> "no", keys |-> << <<"n","o">>, <<"n","o","p","e">>, <<"n","a","h">>, <<"n","o","t"," ","r","e","a","l","l","y">> >>, pick |-> "single", pool |-> 1],
    [name |-> "maybe", keys |-> << <<"m","a","y","b","e">>, <<"p","e","r","h","a","p","s">>, <<"p","o","s","s","i","b","l","y">> >>, pick |-> "single", pool |-> 1],
    [name |-> "good", keys |-> << <<"g","o","o","d">>, <<"g","r","e","a","t">>, <<"a","w","e","s","o","m","e">>, <<"e","x","c","e","l","l","e","n","t">>, <<"w","o","n","d","e","r","f","u","l">> >>, pick |-> "single", pool |-> 1],
    [name |-> "bad", keys |-> << <<"b","a","d">>, <<"t","e","r","r","i","b","l","e">>, <<"a","w","f","u","l">>, <<"h","o","r","r","i","b","l","e">> >>, pick |-> "single", pool |-> 1],
    [name |-> "tired", keys |-> << <<"t","i","r","e","d">>, <<"e","x","h","a","u","s","t","e","d">>, <<"s","l","e","e","p","y">> >>, pick |-> "single", pool |-> 1],
    [name |-> "happy", keys |-> << <<"h","a","p","p","y">>, <<"e","x","c","i","t","e","d">>, <<"j","o","y","f","u","l">>, <<"c","h","e","e","r","f","u","l">> >>, pick |-> "single", pool |-> 1],
    [name |-> "sad", keys |-> << <<"s","a","d">>, <<"u","p","s","e","t">>, <<"d","i","s","a","p","p","o","i","n","t","e","d">> >>, pick |-> "single", pool |-> 1]
  >>

\* PushToTalkRules: the if/elif chain of generate_response (src/examples/push_to_talk_chat.py:212-247), in source order.
\* Keywords, in order: 
\*   line 212: 'hello', 'hi', 'hey', 'good morning'
\*   line 218: 'how are you', "how's it going"
\*   line 221: 'work', 'job', 'career'
\*   line 224: 'family', 'parents', 'kids'
\*   line 227: 'hobby', 'sport', 'music', 'gaming'
\*   line 230: 'food', 'eat', 'restaurant'
\*   line 233: 'time', 'clock'
\*   line 237: 'thank', 'thanks'
\*   line 240: 'goodbye', 'bye', 'quit', 'exit'
PushToTalkRules ==
  <<
    [name |-> "greeting", keys |-> << <<"h","e","l","l","o">>, <<"h","i">>, <<"h","e","y">>, <<"g","o","o","d"," ","m","o","r","n","i","n","g">> >>, pick |-> "single", pool |-> 1],
    [name |-> "how are you", keys |-> << <<"h","o","w"," ","a","r","e"," ","y","o","u">>, <<"h","o","w","'","s"," ","i","t"," ","g","o","i","n","g">> >>, pick |-> "single", pool |-> 1],
    [name |-> "work", keys |-> << <<"w","o","r","k">>, <<"j","o","b">>, <<"c","a","r","e","e","r">> >>, pick |-> "single", pool |-> 1],
    [name |-> "family", keys |-> << <<"f","a","m","i","l","y">>, <<"p","a","r","e","n","t","s">>, <<"k","i","d","s">> >>, pick |-> "single", pool |-> 1],
    [name |-> "hobby", keys |-> << <<"h","o","b","b","y">>, <<"s","p","o","r","t">>, <<"m","u","s","i","c">>, <<"g","a","m","i","n","g">> >>, pick |-> "single", pool |-> 1],
    [name |-> "food", keys |-> << <<"f","o","o","d">>, <<"e","a","t">>, <<"r","e","s","t","a","u","r","a","n","t">> >>, pick |-> "single", pool |-> 1],
    [name |-> "time", keys |-> << <<"t","i","m","e">>, <<"c","l","o","c","k">> >>, pick |-> "single", pool |-> 1],
    [name |-> "thank", keys |-> << <<"t","h","a","n","k">>, <<"t","h","a","n","k","s">> >>, pick |-> "single", pool |-> 1],
    [name |-> "goodbye", keys |-> << <<"g","o","o","d","b","y","e">>, <<"b","y","e">>, <<"q","u","i","t">>, <<"e","x","i","t">> >>, pick |-> "single", pool |-> 1]
  >>

\* SmartEdgeRules: the if/elif chain of generate_smart_response (src/examples/smart_edge_voice_chat.py:207-399), in source order.
\* Keywords, in order: 
\*   line 207: 'hello', 'hi', 'hey', 'good morning', 'good afternoon', 'good evening'
\*   line 223: 'how are you', 'how do you do', "how's it going", "what's up"
\*   line 234: 'what is your name', 'who are you', "what's your name"
\*   line 244: 'time', 'clock', 'hour'
\*   line 256: 'offline', 'local', 'edge', 'privacy', 'private'
\*   line 266: 'whisper', 'speech recognition', 'neutts', 'ai'
\*   line 276: (topic test)
\*   line 286: (topic test)
\*   line 296: (topic test)
\*   line 306: (topic test)
\*   line 316: (topic test)
\*   line 340: 'what', 'who', 'where', 'when', 'why', 'how'
\*   line 350: 'thank', 'thanks', 'thank you'
\*   line 360: 'goodbye', 'bye', 'see you', 'farewell', 'quit', 'exit'
SmartEdgeRules ==
  <<
    [name |-> "greeting", keys |-> << <<"h","e","l","l","o">>, <<"h","i">>, <<"h","e","y">>, <<"g","o","o","d"," ","m","o","r","n","i","n","g">>, <<"g","o","o","d"," ","a","f","t","e","r","n","o","o","n">>, <<"g","o","o","d"," ","e","v","e","n","i","n","g">> >>, pick |-> "random", pool |-> 3, topic |-> ""],
    [name |-> "how are you", keys |-> << <<"h","o","w"," ","a","r","e"," ","y","o","u">>, <<"h","o","w"," ","d","o"," ","y","o","u"," ","d","o">>, <<"h","o","w","'","s"," ","i","t"," ","g","o","i","n","g">>, <<"w","h","a","t","'","s"," ","u","p">> >>, pick |-> "random", pool |-> 5, topic |-> ""],
    [name |-> "what is your name", keys |-> << <<"w","h","a","t"," ","i","s"," ","y","o","u","r"," ","n","a","m","e">>, <<"w","h","o"," ","a","r","e"," ","y","o","u">>, <<"w","h","a","t","'","s"," ","y","o","u","r"," ","n","a","m","e">> >>, pick |-> "random", pool |-> 4, topic |-> ""],
    [name |-> "time", keys |-> << <<"t","i","m","e">>, <<"c","l","o","c","k">>, <<"h","o","u","r">> >>, pick |-> "random", pool |-> 4, topic |-> ""],
    [name |-> "offline", keys |-> << <<"o","f","f","l","i","n","e">>, <<"l","o","c","a","l">>, <<"e","d","g","e">>, <<"p","r","i","v","a","c","y">>, <<"p","r","i","v","a","t","e">> >>, pick |-> "random", pool |-> 4, topic |-> ""],
    [name |-> "technology", keys |-> << <<"w","h","i","s","p","e","r">>, <<"s","p","e","e","c","h"," ","r","e","c","o","g","n","i","t","i","o","n">>, <<"n","e","u","t","t","s">>, <<"a","i">> >>, pick |-> "random", pool |-> 4, topic |-> "technology"],
    [name |-> "work", keys |-> <<  >>, pick |-> "random", pool |-> 4, topic |-> "work"],
    [name |-> "family", keys |-> <<  >>, pick |-> "random", pool |-> 4, topic |-> "family"],
    [name |-> "hobbies", keys |-> <<  >>, pick |-> "random", pool |-> 4, topic |-> "hobbies"],
    [name |-> "food", keys |-> <<  >>, pick |-> "random", pool |-> 4, topic |-> "food"],
    [name |-> "emotions", keys |-> <<  >>, pick |-> "random", pool |-> 4, topic |-> "emotions"],
    [name |-> "what", keys |-> << <<"w","h","a","t">>, <<"w","h","o">>, <<"w","h","e","r","e">>, <<"w","h","e","n">>, <<"w","h","y">>, <<"h","o","w">> >>, pick |-> "random", pool |-> 4, topic |-> ""],
    [name |-> "thank", keys |-> << <<"t","h","a","n","k">>, <<"t","h","a","n","k","s">>, <<"t","h","a","n","k"," ","y","o","u">> >>, pick |-> "random", pool |-> 4, topic |-> ""],
    [name |-> "goodbye", keys |-> << <<"g","o","o","d","b","y","e">>, <<"b","y","e">>, <<"s","e","e"," ","y","o","u">>, <<"f","a","r","e","w","e","l","l">>, <<"q","u","i","t">>, <<"e","x","i","t">> >>, pick |-> "random", pool |-> 4, topic |-> ""]
  >>

\* TextToVoiceRules: the if/elif chain of generate_response (src/examples/text_to_voice_chat.py:51-141), in source order.
\* Keywords, in order: 
\*   line 51: 'hello', 'hi', 'hey', 'good morning', 'good afternoon', 'good evening'
\*   line 54: 'how are you', 'how do you do', "how's it going", "what's up"
\*   line 57: 'what is your name', 'who are you', "what's your name"
\*   line 60: 'what time is it', "what's the time", 'time'
\*   line 64: 'what', 'who', 'where', 'when', 'why', 'how'
\*   line 67: 'thank', 'thanks', 'thank you'
\*   line 70: 'goodbye', 'bye', 'see you', 'farewell', 'quit', 'exit'
\*   line 73: 'weather', 'sunny', 'rainy', 'cloudy', 'temperature'
\*   line 76: 'help', 'assistance', 'support'
\*   line 79: 'yes', 'yeah', 'yep', 'sure', 'okay', 'ok'
\*   line 82: 'no', 'nope', 'nah', 'not really'
\*   line 85: 'maybe', 'perhaps', 'possibly'
\*   line 88: 'good', 'great', 'awesome', 'excellent', 'wonderful'
\*   line 91: 'bad', 'terrible', 'awful', 'horrible'
\*   line 94: 'tired', 'exhausted', 'sleepy'
\*   line 97: 'happy', 'excited', 'joyful', 'cheerful'
\*   line 100: 'sad', 'upset', 'disappointed'
\*   line 103: 'love', 'like', 'enjoy', 'favorite'
\*   line 106: 'hate', 'dislike', 'annoying'
\*   line 109: 'work', 'job', 'career'
\*   line 112: 'family', 'parents', 'siblings', 'children'
\*   line 115: 'friend', 'friends', 'social'
\*   line 118: 'music', 'song', 'band', 'artist'
\*   line 121: 'movie', 'film', 'cinema', 'actor'
\*   line 124: 'book', 'reading', 'novel', 'author'
\*   line 127: 'food', 'eat', 'restaurant', 'cooking'
\*   line 130: 'travel', 'vacation', 'trip', 'visit'
\*   line 133: 'sport', 'exercise', 'fitness', 'gym'
\*   line 136: 'hobby', 'interest', 'passion'
TextToVoiceRules ==
  <<
    [name |-> "greeting", keys |-> << <<"h","e","l","l","o">>, <<"h","i">>, <<"h","e","y">>, <<"g","o","o","d"," ","m","o","r","n","i","n","g">>, <<"g","o","o","d"," ","a","f","t","e","r","n","o","o","n">>, <<"g","o","o","d"," ","e","v","e","n","i","n","g">> >>, pick |-> "single", pool |-> 1],
    [name |-> "how are you", keys |-> << <<"h","o","w"," ","a","r","e"," ","y","o","u">>, <<"h","o","w"," ","d","o"," ","y","o","u"," ","d","o">>, <<"h","o","w","'","s"," ","i","t"," ","g","o","i","n","g">>, <<"w","h","a","t","'","s"," ","u","p">> >>, pick |-> "single", pool |-> 1],
    [name |-> "what is your name", keys |-> << <<"w","h","a","t"," ","i","s"," ","y","o","u","r"," ","n","a","m","e">>, <<"w","h","o"," ","a","r","e"," ","y","o","u">>, <<"w","h","a","t","'","s"," ","y","o","u","r"," ","n","a","m","e">> >>, pick |-> "single", pool |-> 1],
    [name |-> "what time is it", keys |-> << <<"w","h","a","t"," ","t","i","m","e"," ","i","s"," ","i","t">>, <<"w","h","a","t","'","s"," ","t","h","e"," ","t","i","m","e">>, <<"t","i","m","e">> >>, pick |-> "single", pool |-> 1],
    [name |-> "what", keys |-> << <<"w","h","a","t">>, <<"w","h","o">>, <<"w","h","e","r","e">>, <<"w","h","e","n">>, <<"w","h","y">>, <<"h","o","w">> >>, pick |-> "single", pool |-> 1],
    [name |-> "thank", keys |-> << <<"t","h","a","n","k">>, <<"t","h","a","n","k","s">>, <<"t","h","a","n","k"," ","y","o","u">> >>, pick |-> "single", pool |-> 1],
    [name |-> "goodbye", keys |-> << <<"g","o","o","d","b","y","e">>, <<"b","y","e">>, <<"s","e","e"," ","y","o","u">>, <<"f","a","r","e","w","e","l","l">>, <<"q","u","i","t">>, <<"e","x","i","t">> >>, pick |-> "single", pool |-> 1],
    [name |-> "weather", keys |-> << <<"w","e","a","t","h","e","r">>, <<"s","u","n","n","y">>, <<"r","a","i","n","y">>, <<"c","l","o","u","d","y">>, <<"t","e","m","p","e","r","a","t","u","r","e">> >>, pick |-> "single", pool |-> 1],
    [name |-> "help", keys |-> << <<"h","e","l","p">>, <<"a","s","s","i","s","t","a","n","c","e">>, <<"s","u","p","p","o","r","t">> >>, pick |-> "single", pool |-> 1],
    [name |-> "yes", keys |-> << <<"y","e","s">>, <<"y","e","a","h">>, <<"y","e","p">>, <<"s","u","r","e">>, <<"o","k","a","y">>, <<"o","k">> >>, pick |-> "single", pool |-> 1],
    [name |-> "no", keys |-> << <<"n","o">>, <<"n","o","p","e">>, <<"n","a","h">>, <<"n","o","t"," ","r","e","a","l","l","y">> >>, pick |-> "single", pool |-> 1],
    [name |-> "maybe", keys |-> << <<"m","a","y","b","e">>, <<"p","e","r","h","a","p","s">>, <<"p","o","s","s","i","b","l","y">> >>, pick |-> "single", pool |-> 1],
    [name |-> "good", keys |-> << <<"g","o","o","d">>, <<"g","r","e","a","t">>, <<"a","w","e","s","o","m","e">>, <<"e","x","c","e","l","l","e","n","t">>, <<"w","o","n","d","e","r","f","u","l">> >>, pick |-> "single", pool |-> 1],
    [name |-> "bad", keys |-> << <<"b","a","d">>, <<"t","e","r","r","i","b","l","e">>, <<"a","w","f","u","l">>, <<"h","o","r","r","i","b","l","e">> >>, pick |-> "single", pool |-> 1],
    [name |-> "tired", keys |-> << <<"t","i","r","e","d">>, <<"e","x","h","a","u","s","t","e","d">>, <<"s","l","e","e","p","y">> >>, pick |-> "single", pool |-> 1],
    [name |-> "happy", keys |-> << <<"h","a","p","p","y">>, <<"e","x","c","i","t","e","d">>, <<"j","o","y","f","u","l">>, <<"c","h","e","e","r","f","u","l">> >>, pick |-> "single", pool |-> 1],
    [name |-> "sad", keys |-> << <<"s","a","d">>, <<"u","p","s","e","t">>, <<"d","i","s","a","p","p","o","i","n","t","e","d">> >>, pick |-> "single", pool |-> 1],
    [name |-> "love", keys |-> << <<"l","o","v","e">>, <<"l","i","k","e">>, <<"e","n","j","o","y">>, <<"f","a","v","o","r","i","t","e">> >>, pick |-> "single", pool |-> 1],
    [name |-> "hate", keys |-> << <<"h","a","t","e">>, <<"d","i","s","l","i","k","e">>, <<"a","n","n","o","y","i","n","g">> >>, pick |-> "single", pool |-> 1],
    [name |-> "work", keys |-> << <<"w","o","r","k">>, <<"j","o","b">>, <<"c","a","r","e","e","r">> >>, pick |-> "single", pool |-> 1],
    [name |-> "family", keys |-> << <<"f","a","m","i","l","y">>, <<"p","a","r","e","n","t","s">>, <<"s","i","b","l","i","n","g","s">>, <<"c","h","i","l","d","r","e","n">> >>, pick |-> "single", pool |-> 1],
    [name |-> "friend", keys |-> << <<"f","r","i","e","n","d">>, <<"f","r","i","e","n","d","s">>, <<"s","o","c","i","a","l">> >>, pick |-> "single", pool |-> 1],
    [name |-> "music", keys |-> << <<"m","u","s","i","c">>, <<"s","o","n","g">>, <<"b","a","n","d">>, <<"a","r","t","i","s","t">> >>, pick |-> "single", pool |-> 1],
    [name |-> "movie", keys |-> << <<"m","o","v","i","e">>, <<"f","i","l","m">>, <<"c","i","n","e","m","a">>, <<"a","c","t","o","r">> >>, pick |-> "single", pool |-> 1],
    [name |-> "book", keys |-> << <<"b","o","o","k">>, <<"r","e","a","d","i","n","g">>, <<"n","o","v","e","l">>, <<"a","u","t","h","o","r">> >>, pick |-> "single", pool |-> 1],
    [name |-> "food", keys |-> << <<"f","o","o","d">>, <<"e","a","t">>, <<"r","e","s","t","a","u","r","a","n","t">>, <<"c","o","o","k","i","n","g">> >>, pick |-> "single", pool |-> 1],
    [name |-> "travel", keys |-> << <<"t","r","a","v","e","l">>, <<"v","a","c","a","t","i","o","n">>, <<"t","r","i","p">>, <<"v","i","s","i","t">> >>, pick |-> "single", pool |-> 1],
    [name |-> "sport", keys |-> << <<"s","p","o","r","t">>, <<"e","x","e","r","c","i","s","e">>, <<"f","i","t","n","e","s","s">>, <<"g","y","m">> >>, pick |-> "single", pool |-> 1],
    [name |-> "hobby", keys |-> << <<"h","o","b","b","y">>, <<"i","n","t","e","r","e","s","t">>, <<"p","a","s","s","i","o","n">> >>, pick |-> "single", pool |-> 1]
  >>

\* UltraFastRules: the if/elif chain of generate_response (src/examples/ultra_fast_voice_chat.py:88-106), in source order.
\* Keywords, in order: 
\*   line 88: 'hello', 'hi', 'hey'
\*   line 91: 'how are you'
\*   line 94: 'thank', 'thanks'
\*   line 97: 'goodbye', 'bye', 'quit', 'exit'
\*   line 100: 'time'
UltraFastRules ==
  <<
    [name |-> "greeting", keys |-> << <<"h","e","l","l","o">>, <<"h","i">>, <<"h","e","y">> >>, pick |-> "single", pool |-> 1],
    [name |-> "how are you", keys |-> << <<"h","o","w"," ","a","r","e"," ","y","o","u">> >>, pick |-> "single", pool |-> 1],
    [name |-> "thank", keys |-> << <<"t","h","a","n","k">>, <<"t","h","a","n","k","s">> >>, pick |-> "single", pool |-> 1],
    [name |-> "goodbye", keys |-> << <<"g","o","o","d","b","y","e">>, <<"b","y","e">>, <<"q","u","i","t">>, <<"e","x","i","t">> >>, pick |-> "single", pool |-> 1],
    [name |-> "time", keys |-> << <<"t","i","m","e">> >>, pick |-> "single", pool |-> 1]
  >>

\* VoiceChatRules: the if/elif chain of generate_response (src/examples/voice_chat.py:91-118), in source order.
\* Keywords, in order: 
\*   line 91: 'hello', 'hi', 'hey', 'good morning', 'good afternoon'
\*   line 94: 'how are you', 'how do you do', "how's it going"
\*   line 97: 'what', 'who', 'where', 'when', 'why', 'how'
\*   line 100: 'thank', 'thanks'
\*   line 103: 'goodbye', 'bye', 'see you', 'farewell'
\*   line 106: 'name', 'call'
\*   line 109: 'weather', 'sunny', 'rainy', 'cloudy'
\*   line 112: 'time', 'clock', 'hour', 'minute'
VoiceChatRules ==
  <<
    [name |-> "greeting", keys |-> << <<"h","e","l","l","o">>, <<"h","i">>, <<"h","e","y">>, <<"g","o","o","d"," ","m","o","r","n","i","n","g">>, <<"g","o","o","d"," ","a","f","t","e","r","n","o","o","n">> >>, pick |-> "single", pool |-> 1],
    [name |-> "how are you", keys |-> << <<"h","o","w"," ","a","r","e"," ","y","o","u">>, <<"h","o","w"," ","d","o"," ","y","o","u"," ","d","o">>, <<"h","o","w","'","s"," ","i","t"," ","g","o","i","n","g">> >>, pick |-> "single", pool |-> 1],
    [name |-> "what", keys |-> << <<"w","h","a","t">>, <<"w","h","o">>, <<"w","h","e","r","e">>, <<"w","h","e","n">>, <<"w","h","y">>, <<"h","o","w">> >>, pick |-> "single", pool |-> 1],
    [name |-> "thank", keys |-> << <<"t","h","a","n","k">>, <<"t","h","a","n","k","s">> >>, pick |-> "single", pool |-> 1],
    [name |-> "goodbye", keys |-> << <<"g","o","o","d","b","y","e">>, <<"b","y","e">>, <<"s","e","e"," ","y","o","u">>, <<"f","a","r","e","w","e","l","l">> >>, pick |-> "single", pool |-> 1],
    [name |-> "name", keys |-> << <<"n","a","m","e">>, <<"c","a","l","l">> >>, pick |-> "single", pool |-> 1],
    [name |-> "weather", keys |-> << <<"w","e","a","t","h","e","r">>, <<"s","u","n","n","y">>, <<"r","a","i","n","y">>, <<"c","l","o","u","d","y">> >>, pick |-> "single", pool |-> 1],
    [name |-> "time", keys |-> << <<"t","i","m","e">>, <<"c","l","o","c","k">>, <<"h","o","u","r">>, <<"m","i","n","u","t","e">> >>, pick |-> "single", pool |-> 1]
  >>

-----------------------------------------------------------------------------
(* The ten example programs.                                               *)

Variants ==
  { "voice_chat", "fast_voice_chat", "ultra_fast_voice_chat",
    "improved_voice_chat", "edge_voice_chat", "text_to_voice_chat",
    "fixed_edge_voice_chat", "smart_edge_voice_chat", "push_to_talk_chat",
    "clean_exit_voice_chat" }

\* The variants whose run_conversation answers the exit utterance through
\* the dispatcher instead of a literal farewell text.
DispatchOnExit ==
  { "fixed_edge_voice_chat", "smart_edge_voice_chat", "push_to_talk_chat" }

\* The variants that load Whisper and fall back to Google when it is missing.
WhisperOrGoogle ==
  { "edge_voice_chat", "fixed_edge_voice_chat", "smart_edge_voice_chat",
    "push_to_talk_chat" }

\* The five phrases of the exit test, as text.
W_goodbye == <<"g","o","o","d","b","y","e">>
W_quit == <<"q","u","i","t">>
W_exit == <<"e","x","i","t">>
W_stop == <<"s","t","o","p">>
W_bye == <<"b","y","e">>

\* The word list of the exit test in each run_conversation.
ExitWords(v) ==
  CASE v \in {"voice_chat", "fast_voice_chat"} ->
         <<W_goodbye, W_quit, W_exit, W_stop>>
    [] v = "ultra_fast_voice_chat" ->
         <<W_goodbye, W_bye, W_quit, W_exit>>
    [] OTHER ->
         <<W_goodbye, W_quit, W_exit, W_stop, W_bye>>

\* any(word in user_input.lower() for word in [...]) of run_conversation.
IsExitCommand(v, text) == AnyIn(ExitWords(v), Lower(text))

\* The rule table of each dispatcher.
RulesOf(v) ==
  CASE v = "voice_chat" -> VoiceChatRules
    [] v = "fast_voice_chat" -> FastRules
    [] v = "ultra_fast_voice_chat" -> UltraFastRules
    [] v = "improved_voice_chat" -> ImprovedRules
    [] v = "edge_voice_chat" -> EdgeRules
    [] v = "text_to_voice_chat" -> TextToVoiceRules
    [] v = "fixed_edge_voice_chat" -> FixedEdgeRules
    [] v = "push_to_talk_chat" -> PushToTalkRules
    [] v = "clean_exit_voice_chat" -> CleanExitRules
    [] OTHER -> <<>>

\* A dispatcher whose final else branch has nothing to pick from, for
\* comparison.
EmptyPool(v) == [pick |-> "rotate", pool |-> 0]

\* Size of the pool of the final else branch, and how it is indexed.
DefaultPool(v) ==
  CASE v \in {"voice_chat", "fast_voice_chat", "ultra_fast_voice_chat",
              "edge_voice_chat"} -> [pick |-> "random", pool |-> 7]
    [] v = "improved_voice_chat" -> [pick |-> "random", pool |-> 10]
    [] v = "text_to_voice_chat" -> [pick |-> "random", pool |-> 15]
    [] v = "fixed_edge_voice_chat" -> [pick |-> "rotate", pool |-> 15]
    [] v = "push_to_talk_chat" -> [pick |-> "rotate", pool |-> 10]
    [] v = "clean_exit_voice_chat" -> [pick |-> "rotate", pool |-> 5]
    [] OTHER -> [pick |-> "random", pool |-> 15]

-----------------------------------------------------------------------------
(* Session profile and replies.                                            *)

\* A reply is identified by the rule that produced it, the index of the
\* text within the rule's pool, the user name spliced into the text (<<>>
\* when none is), the topics it refers to (smart_edge's contextual pool) and
\* the wall-clock reading spliced into it (0 when none is).
NoReply == [rule |-> "none", idx |-> 0, name |-> <<>>, ref |-> <<>>, clock |-> 0]

\* The literal farewell text passed to synthesize_response by the variants
\* that do not dispatch the exit utterance.
FarewellLiteral == [rule |-> "farewell_literal", idx |-> 0, name |-> <<>>, ref |-> <<>>, clock |-> 0]

UserEntry(text) == [speaker |-> "user", text |-> text, reply |-> NoReply]
AssistantEntry(reply) == [speaker |-> "assistant", text |-> <<>>, reply |-> reply]

\* The profile after __init__: no history, no name, counter 0, no topics.
\* user_name None and the empty string are both falsy and are both <<>> here.
FreshProfile ==
  [history |-> <<>>, userName |-> <<>>, responseCount |-> 0, topics |-> {}]

\* A dispatcher that lets the last matching branch win, for comparison.
LastMatch(rules, lower) ==
  IF \E i \in 1..Len(rules) : AnyIn(rules[i].keys, lower)
  THEN CHOOSE i \in 1..Len(rules) :
         /\ AnyIn(rules[i].keys, lower)
         /\ \A j \in (i + 1)..Len(rules) : ~AnyIn(rules[j].keys, lower)
  ELSE 0

\* Index of the first rule of the table one of whose keywords is in the
\* lowercased text, 0 when no rule matches (the else branch).
FirstMatch(rules, lower) ==
  IF \E i \in 1..Len(rules) : AnyIn(rules[i].keys, lower)
  THEN CHOOSE i \in 1..Len(rules) :
         /\ AnyIn(rules[i].keys, lower)
         /\ \A j \in 1..(i - 1) : ~AnyIn(rules[j].keys, lower)
  ELSE 0

\* The self-introduction cues and the words after which the name is taken.
NameCues == << <<"m","y"," ","n","a","m","e"," ","i","s">>, <<"i"," ","a","m">>, <<"i","'","m">> >>
NameMarkers == { <<"n","a","m","e">>, <<"i","s">>, <<"a","m">>, <<"i","'","m">> }
NamePunctuation == { ".", ",", "!", "?" }

\* for i, word in enumerate(words): if word.lower() in [...] and i + 1 < len(words)
NameAfterMarker(words) ==
  IF \E i \in 1..(Len(words) - 1) : Lower(words[i]) \in NameMarkers
  THEN LET i == CHOOSE k \in 1..(Len(words) - 1) :
                  /\ Lower(words[k]) \in NameMarkers
                  /\ \A j \in 1..(k - 1) : Lower(words[j]) \notin NameMarkers
       IN  [found |-> TRUE, name |-> Strip(words[i + 1], NamePunctuation)]
  ELSE [found |-> FALSE, name |-> <<>>]

\* The block without the test "not self.user_name", for comparison.
ExtractNameOverwriting(userName, text) ==
  IF AnyIn(NameCues, Lower(text))
  THEN LET r == NameAfterMarker(Split(text))
       IN  IF r.found THEN r.name ELSE userName
  ELSE userName

\* "Extract name if mentioned": the user_name after the block.
ExtractName(userName, text) ==
  IF userName = <<>> /\ AnyIn(NameCues, Lower(text))
  THEN LET r == NameAfterMarker(Split(text))
       IN  IF r.found THEN r.name ELSE userName
  ELSE userName

\* What indexing an empty pool gives: responses[n % 0] raises
\* ZeroDivisionError and random.choice([]) raises IndexError.
Raised == 0 - 1

\* Index into a pool: responses[counter % len(responses)] or random.choice.
PickIndex(pick, pool, counter, rnd) ==
  CASE pick = "single" -> 0
    [] pool = 0 -> Raised
    [] pick = "rotate" -> counter % pool
    [] OTHER -> rnd % pool

\* The readings time.strftime may return during a session.
MaxClock == 1
Clocks == 0..MaxClock

\* The rules whose reply splices in time.strftime(...).
ClockRules == {"time", "what time is it"}

\* The reply as built when the clock reads c.
AtClock(r, c) == IF r.rule \in ClockRules THEN [r EXCEPT !.clock = c] ELSE r

\* A goodbye branch without the "if self.user_name" texts, for comparison.
OnlyGreetingPersonalized == {"greeting"}

\* The rules whose reply text splices in self.user_name when it is set.
PersonalizedRules == {"greeting", "goodbye"}

\* Reply of a keyword table, shared by the table-driven dispatchers: the
\* first matching rule, or the else branch.
TableReply(v, lower, counter, userName, rnd) ==
  LET rules == RulesOf(v)
      m == FirstMatch(rules, lower)
  IN  IF m = 0
      THEN [rule |-> "default",
            idx |-> PickIndex(DefaultPool(v).pick, DefaultPool(v).pool, counter, rnd),
            name |-> <<>>, ref |-> <<>>, clock |-> 0]
      ELSE [rule |-> rules[m].name,
            idx |-> PickIndex(rules[m].pick, rules[m].pool, counter, rnd),
            name |-> IF rules[m].name \in PersonalizedRules THEN userName ELSE <<>>,
            ref |-> <<>>, clock |-> 0]

\* generate_response of voice_chat, fast, ultra_fast, improved, edge and
\* text_to_voice: no profile is read or written.
GenerateSimple(v, text, prof, rnd) ==
  [reply |-> TableReply(v, Lower(text), 0, <<>>, rnd), prof |-> prof]

\* CleanExitVoiceChat.generate_response: append the user entry, pick by
\* len(conversation_history), append the assistant entry.
GenerateCleanExit(text, prof, rnd) ==
  LET h1 == Append(prof.history, UserEntry(text))
      r == TableReply("clean_exit_voice_chat", Lower(text), Len(h1), <<>>, rnd)
  IN  [reply |-> r,
       prof |-> [prof EXCEPT !.history = Append(h1, AssistantEntry(r))]]

\* The same dispatcher indexing the pool with the counter as it was before
\* the increment, for comparison.
GenerateNamedStale(v, text, prof, rnd) ==
  LET c == prof.responseCount + 1
      n == ExtractName(prof.userName, text)
  IN  [reply |-> TableReply(v, Lower(text), prof.responseCount, n, rnd),
       prof |-> [prof EXCEPT !.responseCount = c,
                             !.history = Append(prof.history, UserEntry(text)),
                             !.userName = n]]

\* FixedEdgeVoiceChat.generate_better_response and
\* PushToTalkChat.generate_response: count, append the user entry, extract
\* the name, then the table.
GenerateNamed(v, text, prof, rnd) ==
  LET c == prof.responseCount + 1
      n == ExtractName(prof.userName, text)
  IN  [reply |-> TableReply(v, Lower(text), c, n, rnd),
       prof |-> [prof EXCEPT !.responseCount = c,
                             !.history = Append(prof.history, UserEntry(text)),
                             !.userName = n]]

\* The topics table of SmartEdgeVoiceChat.extract_keywords.
SmartTopics ==
  <<
    [topic |-> "work", keys |-> << <<"w","o","r","k">>, <<"j","o","b">>, <<"c","a","r","e","e","r">>, <<"o","f","f","i","c","e">>, <<"b","u","s","i","n","e","s","s">>, <<"c","o","m","p","a","n","y">> >>],
    [topic |-> "family", keys |-> << <<"f","a","m","i","l","y">>, <<"p","a","r","e","n","t","s">>, <<"m","o","t","h","e","r">>, <<"f","a","t","h","e","r">>, <<"s","i","s","t","e","r">>, <<"b","r","o","t","h","e","r">>, <<"c","h","i","l","d","r","e","n">>, <<"k","i","d","s">> >>],
    [topic |-> "hobbies", keys |-> << <<"h","o","b","b","y">>, <<"h","o","b","b","i","e","s">>, <<"s","p","o","r","t">>, <<"m","u","s","i","c">>, <<"a","r","t">>, <<"r","e","a","d","i","n","g">>, <<"g","a","m","i","n","g">>, <<"t","r","a","v","e","l">> >>],
    [topic |-> "food", keys |-> << <<"f","o","o","d">>, <<"e","a","t">>, <<"r","e","s","t","a","u","r","a","n","t">>, <<"c","o","o","k","i","n","g">>, <<"r","e","c","i","p","e">>, <<"m","e","a","l">>, <<"h","u","n","g","r","y">> >>],
    [topic |-> "weather", keys |-> << <<"w","e","a","t","h","e","r">>, <<"r","a","i","n">>, <<"s","u","n","n","y">>, <<"c","l","o","u","d","y">>, <<"h","o","t">>, <<"c","o","l","d">>, <<"t","e","m","p","e","r","a","t","u","r","e">> >>],
    [topic |-> "technology", keys |-> << <<"c","o","m","p","u","t","e","r">>, <<"p","h","o","n","e">>, <<"i","n","t","e","r","n","e","t">>, <<"a","i">>, <<"t","e","c","h","n","o","l","o","g","y">>, <<"s","o","f","t","w","a","r","e">>, <<"a","p","p">> >>],
    [topic |-> "emotions", keys |-> << <<"h","a","p","p","y">>, <<"s","a","d">>, <<"a","n","g","r","y">>, <<"e","x","c","i","t","e","d">>, <<"t","i","r","e","d">>, <<"w","o","r","r","i","e","d">>, <<"n","e","r","v","o","u","s">>, <<"c","a","l","m">> >>],
    [topic |-> "time", keys |-> << <<"t","i","m","e">>, <<"c","l","o","c","k">>, <<"h","o","u","r">>, <<"m","i","n","u","t","e">>, <<"t","o","d","a","y">>, <<"t","o","m","o","r","r","o","w">>, <<"y","e","s","t","e","r","d","a","y">>, <<"w","e","e","k","e","n","d">> >>],
    [topic |-> "location", keys |-> << <<"h","o","m","e">>, <<"w","o","r","k">>, <<"s","c","h","o","o","l">>, <<"s","t","o","r","e">>, <<"p","a","r","k">>, <<"c","i","t","y">>, <<"c","o","u","n","t","r","y">>, <<"t","r","a","v","e","l">> >>]
  >>

\* extract_keywords(text): the topics one of whose words is in the text.
ExtractKeywords(text) ==
  { SmartTopics[i].topic : i \in { k \in 1..Len(SmartTopics) :
                                     AnyIn(SmartTopics[k].keys, Lower(text)) } }

EmotionsPositive == << <<"h","a","p","p","y">>, <<"e","x","c","i","t","e","d">>, <<"j","o","y","f","u","l">>, <<"g","r","e","a","t">>, <<"w","o","n","d","e","r","f","u","l">> >>
EmotionsNegative == << <<"s","a","d">>, <<"u","p","s","e","t">>, <<"d","i","s","a","p","p","o","i","n","t","e","d">>, <<"w","o","r","r","i","e","d">> >>

\* A rule of smart_edge matches by topic ('work' in keywords) or by keyword.
SmartMatches(r, lower, keywords) ==
  \/ r.topic # "" /\ r.topic \in keywords
  \/ AnyIn(r.keys, lower)

SmartFirstMatch(lower, keywords) ==
  IF \E i \in 1..Len(SmartEdgeRules) : SmartMatches(SmartEdgeRules[i], lower, keywords)
  THEN CHOOSE i \in 1..Len(SmartEdgeRules) :
         /\ SmartMatches(SmartEdgeRules[i], lower, keywords)
         /\ \A j \in 1..(i - 1) : ~SmartMatches(SmartEdgeRules[j], lower, keywords)
  ELSE 0

\* list(self.topics_discussed)[-3:]: the last three topics of one iteration
\* order of the set; the order of a Python set of strings is not fixed, so
\* every arrangement of up to three distinct topics is a possible value.
RecentTopicLists(topics) ==
  LET n == IF Cardinality(topics) < 3 THEN Cardinality(topics) ELSE 3
  IN  { s \in [1..n -> topics] : \A i, j \in 1..n : i # j => s[i] # s[j] }

\* SmartEdgeVoiceChat.generate_smart_response; recent is the value of
\* list(self.topics_discussed)[-3:] should the contextual branch be taken.
GenerateSmart(text, prof, rnd, recent) ==
  LET lower == Lower(text)
      c == prof.responseCount + 1
      keywords == ExtractKeywords(text)
      tp == prof.topics \cup keywords
      h1 == Append(prof.history, UserEntry(text))
      n == ExtractName(prof.userName, text)
      m == SmartFirstMatch(lower, keywords)
      r == IF m = 0
           THEN IF Len(h1) > 2
                THEN IF recent # <<>>
                     THEN [rule |-> "contextual", idx |-> rnd % 4, name |-> <<>>, ref |-> recent, clock |-> 0]
                     ELSE [rule |-> "contextual_generic", idx |-> rnd % 4, name |-> <<>>, ref |-> <<>>, clock |-> 0]
                ELSE [rule |-> "default", idx |-> rnd % 15, name |-> <<>>, ref |-> <<>>, clock |-> 0]
           ELSE IF SmartEdgeRules[m].name = "emotions"
                THEN IF AnyIn(EmotionsPositive, lower)
                     THEN [rule |-> "emotions_positive", idx |-> rnd % 4, name |-> <<>>, ref |-> <<>>, clock |-> 0]
                     ELSE IF AnyIn(EmotionsNegative, lower)
                          THEN [rule |-> "emotions_negative", idx |-> rnd % 4, name |-> <<>>, ref |-> <<>>, clock |-> 0]
                          ELSE [rule |-> "emotions", idx |-> rnd % 3, name |-> <<>>, ref |-> <<>>, clock |-> 0]
                ELSE [rule |-> SmartEdgeRules[m].name,
                      idx |-> rnd % SmartEdgeRules[m].pool,
                      name |-> IF SmartEdgeRules[m].name \in PersonalizedRules THEN n ELSE <<>>,
                      ref |-> <<>>, clock |-> 0]
  IN  [reply |-> r,
       prof |-> [history |-> h1, userName |-> n, responseCount |-> c, topics |-> tp]]

-----------------------------------------------------------------------------
(* Transcripts the speech-to-text collaborator may return.                 *)

T_stop == <<"s","t","o","p">>
T_bye == <<"b","y","e">>
T_goodbye == <<"G","o","o","d","b","y","e">>
T_hello == <<"h","e","l","l","o">>
T_hi_bye == <<"h","i",","," ","b","y","e">>
T_dave == <<"H","i",","," ","m","y"," ","n","a","m","e"," ","i","s"," ","D","a","v","e">>
T_work == <<"w","o","r","k">>
T_hmm == <<"h","m","m">>
T_empty == <<>>

Transcripts == {T_stop, T_bye, T_goodbye, T_hello, T_hi_bye, T_dave, T_work, T_hmm}

\* The five exit phrases of the specification's exit-phrase set.
ExitPhrases == <<W_goodbye, W_quit, W_exit, W_stop, W_bye>>

ContainsExitPhrase(text) == AnyIn(ExitPhrases, Lower(text))

None == [isNone |-> TRUE, text |-> <<>>]
Some(text) == [isNone |-> FALSE, text |-> text]

-----------------------------------------------------------------------------
(* Files.  An artifact is written to os.path.abspath(name), that is, into  *)
(* the working directory; NamedTemporaryFile and cleanup() use             *)
(* tempfile.gettempdir().                                                  *)

Digits == <<"1","2","3","4","5","6","7","8","9">>

\* "temp_response.wav"
LiteralName == <<"t","e","m","p","_","r","e","s","p","o","n","s","e",".","w","a","v">>
\* f"temp_response_{id}.wav"
SessionPrefix == <<"t","e","m","p","_","r","e","s","p","o","n","s","e","_">>
WavSuffix == <<".","w","a","v">>
SessionName(id) == SessionPrefix \o <<Digits[id]>> \o WavSuffix
\* The file NamedTemporaryFile(suffix=".wav", delete=False) creates.
WhisperTmpName == <<"t","m","p","a",".","w","a","v">>

StartsWith(s, p) == Len(s) >= Len(p) /\ SubSeq(s, 1, Len(p)) = p
EndsWith(s, p) == Len(s) >= Len(p) /\ SubSeq(s, Len(s) - Len(p) + 1, Len(s)) = p

\* file.startswith("temp_response_") and file.endswith(".wav")
MatchesCleanupPattern(name) == StartsWith(name, SessionPrefix) /\ EndsWith(name, WavSuffix)

NoPath == [dir |-> "none", name |-> <<>>]

\* How synthesize_response names its artifact.
Naming(v) ==
  CASE v \in {"fixed_edge_voice_chat", "push_to_talk_chat"} -> "uuid"
    [] v = "clean_exit_voice_chat" -> "timestamp"
    [] OTHER -> "literal"

-----------------------------------------------------------------------------
(* Waveforms.  A sample is a number of tenths of full scale.               *)

NoWave == <<>>

\* What self.tts.infer may return: silence, a waveform that reaches full
\* scale on the negative side, a quiet one.
Waves == { <<0, 0>>, <<0 - 10, 4>>, <<4, 0>> }

Abs(x) == IF x < 0 THEN 0 - x ELSE x

\* np.max(np.abs(wav))
Peak(w) ==
  IF w = <<>> THEN 0
  ELSE CHOOSE m \in { Abs(w[i]) : i \in 1..Len(w) } :
         \A i \in 1..Len(w) : Abs(w[i]) <= m

\* The variants whose synthesize_response has the normalization block, and
\* the factor it multiplies by (in tenths).
Normalizing == Variants \ {"voice_chat", "clean_exit_voice_chat"}
Factor(v) == IF v = "ultra_fast_voice_chat" THEN 7 ELSE 8

\* if np.max(np.abs(wav)) > 0: wav = wav / np.max(np.abs(wav)) * 0.8
Normalize(v, w) ==
  IF v \in Normalizing /\ Peak(w) > 0
  THEN [i \in 1..Len(w) |-> (w[i] * Factor(v)) \div Peak(w)]
  ELSE w

-----------------------------------------------------------------------------
(* State.                                                                  *)

VARIABLES
  variant,      \* the example program that runs
  useWhisper,   \* self.use_whisper
  cwdIsTemp,    \* the working directory is tempfile.gettempdir()
  frames,       \* main thread: frames[1] is the program, above it the
                \* signal_handler calls in progress; the last one executes
  running,      \* self.running (clean_exit only; TRUE elsewhere)
  files,        \* files that exist: [dir, name]
  player,       \* an afplay process started by the session is running
  captured,     \* an audio object is held by the capture / transcription code
  userInput,    \* user_input of run_conversation: None or a text
  response,     \* the reply handed to synthesize_response
  farewell,     \* the exit test of this iteration matched
  outPath,      \* output_path of the synthesize_response call in progress
  prof,         \* conversation_history, user_name, response_count, topics_discussed
  lastStamp,    \* last value of int(time.time() * 1000) read (clean_exit)
  isRecording,  \* self.is_recording (push_to_talk)
  audioData,    \* self.audio_data (push_to_talk): chunks [w, k, late], the
                \* k-th chunk recorded by worker w; late: it was appended
                \* after is_recording had been cleared
  workers,      \* the record_audio threads started, in order: [pc, n]
  micHolder,    \* the worker inside "with self.microphone", 0 if none
  sigAt,        \* for each signal delivered so far, what the thread was executing
  exitStatus,   \* "running", "ok" (status 0) or "killed" (ended by a signal)
  exitCause,    \* why run_conversation left its loop
  turns,        \* replies dispatched for non-exit utterances
  synthCalls,   \* synthesize_response calls made for the current utterance
  written,      \* every path sf.write has written, in order
  cleanups,     \* executions of cleanup() started
  deletions,    \* paths deleted (os.remove of an artifact), in order
  synthErr,     \* the synthesize_response call in progress: "none" (nothing
                \* failed), "reported" (a failure was printed) or "silent"
                \* (a failure was not printed)
  wav,          \* wav of the synthesize_response call in progress, from
                \* tts.infer until the artifact is handed to the player:
                \* samples in tenths of full scale, <<>> when there is none
  calibrations, \* calls of recognizer.adjust_for_ambient_noise made so far
  combined      \* combined_audio of listen_with_push_to_talk (push_to_talk): the
                \* raw data handed to the transcription, <<>> before the first
                \* one

vars ==
  << variant, useWhisper, cwdIsTemp, frames, running, files, player, captured,
     userInput, response, farewell, outPath, prof, lastStamp, isRecording,
     audioData, workers, micHolder, sigAt, exitStatus, exitCause, turns,
     synthCalls, written, cleanups, deletions, synthErr, wav, calibrations, combined >>

\* Groups used by UNCHANGED.
configVars == << variant, useWhisper, cwdIsTemp >>
pttVars == << isRecording, audioData, workers, micHolder >>
obsVars == << turns, synthCalls, written, cleanups, deletions >>

\* pend: the exception a finally block re-raises when it ends; todo, cur: the
\* names cleanup() still has to visit and the one it is visiting; failed:
\* the names whose removal raised in this call of cleanup().
Frame(pc) ==
  [pc |-> pc, pend |-> "none", todo |-> {}, cur |-> <<>>, failed |-> {}]

Top == frames[Len(frames)]
MainPc == frames[1].pc
InMain(pc) == Len(frames) = 1 /\ frames[1].pc = pc
GotoMain(pc) == frames' = << [frames[1] EXCEPT !.pc = pc] >>

\* Directory an artifact lands in: the working directory.
ArtifactDir == IF cwdIsTemp THEN "tmp" ELSE "cwd"

-----------------------------------------------------------------------------
(* Exceptions and where they land.                                         *)

\* Subclasses of Exception.  "Exception" stands for any other one (OSError,
\* RuntimeError, ...).  KeyboardInterrupt and SystemExit are BaseExceptions
\* that "except Exception" does not catch.
ExceptionClasses ==
  {"WaitTimeoutError", "UnknownValueError", "RequestError", "EOFError", "Exception"}
IsException(e) == e \in ExceptionClasses

ListenPcs == {"listen", "ptt_start", "ptt_wait", "ptt_join", "ptt_read"}
AsrPcs == {"asr_tmp", "asr", "asr2", "asr_unlink", "asr_unlinked", "asr_after"}
LoopPcs == {"loop", "check", "dispatch", "synth_ret"}
SynthPcs == {"synth", "write", "play", "playing", "remove", "removed"}
CleanupPcs == {"cl_enter", "cl_iter", "cl_rm"}

\* The ASR path of listen_for_speech has its own try/except Exception.
CatchAllCapture(v, w) ==
  \/ v \in {"improved_voice_chat", "clean_exit_voice_chat", "push_to_talk_chat"}
  \/ v \in WhisperOrGoogle /\ w

\* listen_for_speech transcribes through process_with_whisper.
WhisperPath(v, w) ==
  \/ v = "clean_exit_voice_chat"
  \/ v \in WhisperOrGoogle /\ w

Landing(pc, pend, none, stop, cause) ==
  [pc |-> pc, pend |-> pend, none |-> none, stop |-> stop, cause |-> cause]

\* An exception that no handler of listen_for_speech / synthesize_response
\* catches reaches run_conversation and, from there, main().
Escape(v, e) ==
  CASE v = "clean_exit_voice_chat" ->
         \* try: ... except KeyboardInterrupt: print ... finally: cleanup()
         Landing("cl_enter", IF e = "KeyboardInterrupt" THEN "none" ELSE e, FALSE, FALSE,
                 IF e \in {"SystemExit", "KeyboardInterrupt"} THEN "signal" ELSE "error")
    [] v = "text_to_voice_chat" /\ e = "KeyboardInterrupt" ->
         \* except KeyboardInterrupt: break
         Landing("done", "none", FALSE, FALSE, "signal")
    [] v = "text_to_voice_chat" /\ e = "EOFError" ->
         \* except EOFError: break
         Landing("done", "none", FALSE, FALSE, "eof")
    [] OTHER ->
         \* main(): except KeyboardInterrupt / except Exception, then return
         Landing("done", "none", FALSE, FALSE,
                 IF e = "KeyboardInterrupt" THEN "signal" ELSE "error")

\* Where exception e, raised while the program frame is at pc, lands.
Land(v, w, pc, e) ==
  CASE pc \in SynthPcs ->
         \* synthesize_response: try ... except Exception; clean_exit wraps
         \* the removal in try ... except: pass
         IF IsException(e) \/ (v = "clean_exit_voice_chat" /\ pc \in {"remove", "removed"})
         THEN Landing("synth_ret", "none", FALSE, FALSE, "")
         ELSE Escape(v, e)
    [] pc \in LoopPcs -> Escape(v, e)
    [] pc \in CleanupPcs ->
         \* cleanup() called from the finally block of run_conversation
         \* (the removal is inside try ... except: pass; nothing else in
         \* cleanup() or the finally block catches a BaseException)
         IF pc = "cl_rm" THEN Landing("cl_iter", "keep", FALSE, FALSE, "")
         ELSE Landing("done", "none", FALSE, FALSE, "")
    [] pc \in {"asr_unlink", "asr_unlinked"} /\ v = "clean_exit_voice_chat" ->
         \* try: os.unlink(tmp_file_path) except: pass
         Landing("asr_after", "keep", FALSE, FALSE, "")
    [] pc = "asr" /\ WhisperPath(v, w) ->
         \* the finally block that unlinks the temporary file
         Landing("asr_unlink", e, FALSE, FALSE, "")
    [] pc = "asr2" ->
         \* improved: second attempt inside try ... except: pass
         Landing("check", "none", TRUE, FALSE, "")
    [] pc = "asr" /\ v = "improved_voice_chat" /\ e \in {"UnknownValueError", "RequestError"} ->
         Landing("asr2", "none", FALSE, FALSE, "")
    [] v = "text_to_voice_chat" -> Escape(v, e)
    [] v = "clean_exit_voice_chat" /\ e = "KeyboardInterrupt" ->
         \* except KeyboardInterrupt: self.running = False; return None
         Landing("check", "none", TRUE, TRUE, "")
    [] CatchAllCapture(v, w) /\ IsException(e) ->
         Landing("check", "none", TRUE, FALSE, "")
    [] ~CatchAllCapture(v, w) /\ e \in {"WaitTimeoutError", "UnknownValueError", "RequestError"} ->
         Landing("check", "none", TRUE, FALSE, "")
    [] OTHER -> Escape(v, e)

NoLanding == Landing("", "keep", FALSE, FALSE, "")

\* Exception e raised in the executing frame fs[Len(fs)]: the frames that
\* remain and, when it reaches the program frame, where it lands there.
\* In a signal_handler frame the removal of cleanup() swallows everything
\* (except: pass); a BaseException raised elsewhere leaves the handler and is
\* raised at the interrupted instruction of the frame below.
RECURSIVE Unwind(_, _)
Unwind(fs, e) ==
  LET k == Len(fs)
      f == fs[k]
  IN  IF k = 1
      THEN LET l == Land(variant, useWhisper, f.pc, e)
           IN  [fs |-> << [f EXCEPT !.pc = l.pc,
                                    !.pend = IF l.pend = "keep" THEN f.pend ELSE l.pend] >>,
                l |-> l, main |-> TRUE]
      ELSE IF f.pc = "cl_rm"
           THEN [fs |-> [fs EXCEPT ![k].pc = "cl_iter"], l |-> NoLanding, main |-> FALSE]
           ELSE Unwind(SubSeq(fs, 1, k - 1), e)

\* The state change of raising e in frames fs.  subprocess.run kills the
\* player when an exception interrupts its wait.
RaiseIn(fs, e) ==
  LET u == Unwind(fs, e)
  IN  /\ frames' = u.fs
      /\ userInput' = IF u.l.none THEN None ELSE userInput
      /\ running' = IF u.l.stop THEN FALSE ELSE running
      /\ exitCause' = IF exitCause = "" THEN u.l.cause ELSE exitCause
      /\ exitStatus' = IF u.fs[1].pc = "done" THEN "ok" ELSE exitStatus
      /\ captured' = IF u.main /\ u.fs[1].pc \notin AsrPcs THEN FALSE ELSE captured
      /\ player' = IF u.main /\ fs[1].pc = "playing" THEN FALSE ELSE player

Raise(e) == RaiseIn(frames, e)

\* What an action that only raises leaves alone.
raiseRest ==
  << configVars, files, response, farewell, outPath, prof, lastStamp, pttVars,
     sigAt, obsVars >>

\* Moving the executing frame to pc.
Goto(pc) == frames' = [frames EXCEPT ![Len(frames)].pc = pc]

-----------------------------------------------------------------------------
(* Initial state: the state after __init__ of the chosen variant.          *)

Init ==
  /\ variant \in Variants
  /\ useWhisper \in IF variant \in WhisperOrGoogle THEN BOOLEAN
                    ELSE {variant = "clean_exit_voice_chat"}
  /\ cwdIsTemp \in BOOLEAN
  /\ frames = << Frame("loop") >>
  /\ running = TRUE
  /\ files = {}
  /\ player = FALSE
  /\ captured = FALSE
  /\ userInput = None
  /\ response = NoReply
  /\ farewell = FALSE
  /\ outPath = NoPath
  /\ prof = FreshProfile
  /\ lastStamp = 0
  /\ isRecording = FALSE
  /\ audioData = <<>>
  /\ workers = <<>>
  /\ micHolder = 0
  /\ sigAt = <<>>
  /\ exitStatus = "running"
  /\ exitCause = ""
  /\ turns = 0
  /\ synthCalls = 0
  /\ written = <<>>
  /\ cleanups = 0
  /\ deletions = <<>>
  /\ synthErr = "none"
  /\ wav = NoWave
  /\ calibrations = IF variant = "text_to_voice_chat" THEN 0 ELSE 1
  /\ combined = <<>>

-----------------------------------------------------------------------------
(* The conversation loop: capture and transcription.                       *)

\* Values random.choice may pick from (taken modulo the pool size).
MaxRnd == 1

Blank == {" "}

\* What the recognizer may return: an utterance that is not an exit command
\* only while the session has turns left.
Heard ==
  { t \in Transcripts \cup {T_empty} : IsExitCommand(variant, t) \/ turns < MaxTurns }

IsClean == variant = "clean_exit_voice_chat"
IsPtt == variant = "push_to_talk_chat"
IsText == variant = "text_to_voice_chat"

\* The loop was left for this cause unless an earlier one is recorded.
LeaveFor(cause) == exitCause' = IF exitCause = "" THEN cause ELSE exitCause

\* The loop head without the test of self.running (while True), for
\* comparison.
LoopTopWithoutRunningTest ==
  /\ InMain("loop")
  /\ userInput' = None
  /\ response' = NoReply
  /\ farewell' = FALSE
  /\ synthCalls' = 0
  /\ GotoMain(IF IsPtt THEN "ptt_start" ELSE "listen")
  /\ UNCHANGED << variant, useWhisper, cwdIsTemp, running, files, player,
               captured, outPath, prof, lastStamp, isRecording, audioData,
               workers, micHolder, sigAt, exitStatus, exitCause, turns,
               written, cleanups, deletions, synthErr, wav, calibrations, combined >>

\* while True: / while self.running:
LoopTop ==
  /\ InMain("loop")
  /\ userInput' = None
  /\ response' = NoReply
  /\ farewell' = FALSE
  /\ synthCalls' = 0
  /\ IF IsClean /\ ~running
     THEN GotoMain("cl_enter") /\ LeaveFor("signal")
     ELSE GotoMain(IF IsPtt THEN "ptt_start" ELSE "listen") /\ UNCHANGED exitCause
  /\ UNCHANGED << variant, useWhisper, cwdIsTemp, running, files, player,
               captured, outPath, prof, lastStamp, isRecording, audioData,
               workers, micHolder, sigAt, exitStatus, turns, written,
               cleanups, deletions, synthErr, wav,
               calibrations, combined >>

\* recognizer.listen(source, timeout=..., phrase_time_limit=...) returns audio.
ListenOk ==
  /\ InMain("listen")
  /\ ~IsText
  /\ IF IsClean /\ ~running
     THEN GotoMain("check") /\ UNCHANGED captured
     ELSE /\ captured' = TRUE
          /\ GotoMain(IF WhisperPath(variant, useWhisper) THEN "asr_tmp" ELSE "asr")
  /\ UNCHANGED << variant, useWhisper, cwdIsTemp, running, files, player,
               userInput, response, farewell, outPath, prof, lastStamp,
               isRecording, audioData, workers, micHolder, sigAt, exitStatus,
               exitCause, turns, synthCalls, written, cleanups, deletions, synthErr, wav,
               calibrations, combined >>

\* recognizer.listen raises: no speech within the timeout, or a device error.
ListenFail ==
  /\ InMain("listen")
  /\ ~IsText
  /\ ~(IsClean /\ ~running)
  /\ \E e \in {"WaitTimeoutError", "Exception"} : Raise(e)
  /\ UNCHANGED << variant, useWhisper, cwdIsTemp, files, response, farewell,
               outPath, prof, lastStamp, isRecording, audioData, workers,
               micHolder, sigAt, turns, synthCalls, written, cleanups,
               deletions, synthErr, wav,
               calibrations, combined >>

\* text_to_voice: user_input = input(...).strip(); if not user_input: continue
ReadLine ==
  /\ InMain("listen")
  /\ IsText
  /\ \E line \in Heard \cup {<<" ">>} :
       LET s == Strip(line, Blank)
       IN  IF s = <<>>
           THEN GotoMain("loop") /\ UNCHANGED userInput
           ELSE GotoMain("check") /\ userInput' = Some(s)
  /\ UNCHANGED << variant, useWhisper, cwdIsTemp, running, files, player,
               captured, response, farewell, outPath, prof, lastStamp,
               isRecording, audioData, workers, micHolder, sigAt, exitStatus,
               exitCause, turns, synthCalls, written, cleanups, deletions, synthErr, wav,
               calibrations, combined >>

\* text_to_voice: input() raises EOFError at end of input.
ReadEof ==
  /\ InMain("listen")
  /\ IsText
  /\ Raise("EOFError")
  /\ UNCHANGED << variant, useWhisper, cwdIsTemp, files, response, farewell,
               outPath, prof, lastStamp, isRecording, audioData, workers,
               micHolder, sigAt, turns, synthCalls, written, cleanups,
               deletions, synthErr, wav,
               calibrations, combined >>

\* with tempfile.NamedTemporaryFile(suffix=".wav", delete=False) as tmp_file
AsrTmp ==
  /\ InMain("asr_tmp")
  /\ files' = files \cup {[dir |-> "tmp", name |-> WhisperTmpName]}
  /\ GotoMain("asr")
  /\ UNCHANGED << variant, useWhisper, cwdIsTemp, running, player, captured,
               userInput, response, farewell, outPath, prof, lastStamp,
               isRecording, audioData, workers, micHolder, sigAt, exitStatus,
               exitCause, turns, synthCalls, written, cleanups, deletions, synthErr, wav,
               calibrations, combined >>

\* Writing the temporary WAV fails.
AsrTmpFail ==
  /\ InMain("asr_tmp")
  /\ Raise("Exception")
  /\ UNCHANGED << variant, useWhisper, cwdIsTemp, files, response, farewell,
               outPath, prof, lastStamp, isRecording, audioData, workers,
               micHolder, sigAt, turns, synthCalls, written, cleanups,
               deletions, synthErr, wav,
               calibrations, combined >>

\* whisper_model_obj.transcribe(tmp_file_path); text = result["text"].strip()
AsrWhisper ==
  /\ InMain("asr")
  /\ WhisperPath(variant, useWhisper)
  /\ \E t \in Heard \cup {<<" ">>} :
       LET text == Strip(t, Blank)
       IN  userInput' = IF text # <<>> /\ running THEN Some(text) ELSE None
  /\ GotoMain("asr_unlink")
  /\ UNCHANGED << variant, useWhisper, cwdIsTemp, running, files, player,
               captured, response, farewell, outPath, prof, lastStamp,
               isRecording, audioData, workers, micHolder, sigAt, exitStatus,
               exitCause, turns, synthCalls, written, cleanups, deletions, synthErr, wav,
               calibrations, combined >>

\* transcribe raises.
AsrWhisperFail ==
  /\ InMain("asr")
  /\ WhisperPath(variant, useWhisper)
  /\ ~(IsClean /\ ~running)
  /\ Raise("Exception")
  /\ UNCHANGED << variant, useWhisper, cwdIsTemp, files, response, farewell,
               outPath, prof, lastStamp, isRecording, audioData, workers,
               micHolder, sigAt, turns, synthCalls, written, cleanups,
               deletions, synthErr, wav,
               calibrations, combined >>

\* text = recognizer.recognize_google(audio); return text
AsrGoogle ==
  /\ InMain("asr")
  /\ ~WhisperPath(variant, useWhisper)
  /\ \E t \in Heard : userInput' = Some(t)
  /\ captured' = FALSE
  /\ GotoMain("check")
  /\ UNCHANGED << variant, useWhisper, cwdIsTemp, running, files, player,
               response, farewell, outPath, prof, lastStamp, isRecording,
               audioData, workers, micHolder, sigAt, exitStatus, exitCause,
               turns, synthCalls, written, cleanups, deletions, synthErr, wav,
               calibrations, combined >>

\* recognize_google raises.
AsrGoogleFail ==
  /\ InMain("asr")
  /\ ~WhisperPath(variant, useWhisper)
  /\ \E e \in {"UnknownValueError", "RequestError", "Exception"} : Raise(e)
  /\ UNCHANGED << variant, useWhisper, cwdIsTemp, files, response, farewell,
               outPath, prof, lastStamp, isRecording, audioData, workers,
               micHolder, sigAt, turns, synthCalls, written, cleanups,
               deletions, synthErr, wav,
               calibrations, combined >>

\* improved: recognize_google(audio, language="en-US") inside try/except: pass
Asr2 ==
  /\ InMain("asr2")
  /\ \/  /\ \E t \in Heard : userInput' = Some(t)
        /\ captured' = FALSE
        /\ GotoMain("check")
        /\ UNCHANGED << variant, useWhisper, cwdIsTemp, running, files, player,
                     response, farewell, outPath, prof, lastStamp, isRecording,
                     audioData, workers, micHolder, sigAt, exitStatus,
                     exitCause, turns, synthCalls, written, cleanups,
                     deletions, synthErr, wav,
               calibrations, combined >>
     \/  /\ \E e \in {"UnknownValueError", "RequestError", "Exception"} : Raise(e)
        /\ UNCHANGED << variant, useWhisper, cwdIsTemp, files, response,
                     farewell, outPath, prof, lastStamp, isRecording,
                     audioData, workers, micHolder, sigAt, turns, synthCalls,
                     written, cleanups, deletions, synthErr, wav,
               calibrations, combined >>

\* finally: os.unlink(tmp_file_path)
AsrUnlink ==
  /\ InMain("asr_unlink")
  /\ files' = files \ {[dir |-> "tmp", name |-> WhisperTmpName]}
  /\ GotoMain(IF IsClean THEN "asr_unlinked" ELSE "asr_after")
  /\ UNCHANGED << variant, useWhisper, cwdIsTemp, running, player, captured,
               userInput, response, farewell, outPath, prof, lastStamp,
               isRecording, audioData, workers, micHolder, sigAt, exitStatus,
               exitCause, turns, synthCalls, written, cleanups, deletions, synthErr, wav,
               calibrations, combined >>

\* The end of the finally block: the function returns what the try block
\* returned, or the pending exception goes on to the enclosing handlers.
AsrAfter ==
  /\ MainPc \in {"asr_unlinked", "asr_after"}
  /\ Len(frames) = 1
  /\ IF frames[1].pend = "none"
     THEN /\ GotoMain("check")
          /\ captured' = FALSE
          /\ UNCHANGED << userInput, running, exitCause, exitStatus, player >>
     ELSE RaiseIn(<< [frames[1] EXCEPT !.pc = "asr_after"] >>, frames[1].pend)
  /\ UNCHANGED << variant, useWhisper, cwdIsTemp, files, response, farewell,
               outPath, prof, lastStamp, isRecording, audioData, workers,
               micHolder, sigAt, turns, synthCalls, written, cleanups,
               deletions, synthErr, wav,
               calibrations, combined >>

-----------------------------------------------------------------------------
(* The conversation loop: exit test, reply selection, synthesis, playback. *)

\* The replies the dispatcher of variant v may return for text, each with
\* the profile it leaves.  voice_chat and fast_voice_chat append the user
\* and assistant entries in run_conversation, around generate_response.
Replies(v, text, p) ==
  CASE v \in {"fixed_edge_voice_chat", "push_to_talk_chat"} ->
         { [reply |-> AtClock(GenerateNamed(v, text, p, 0).reply, c),
            prof |-> GenerateNamed(v, text, p, 0).prof] : c \in Clocks }
    [] v = "clean_exit_voice_chat" ->
         { GenerateCleanExit(text, p, 0) }
    [] v = "smart_edge_voice_chat" ->
         LET lists == RecentTopicLists(p.topics \cup ExtractKeywords(text))
         IN  { [reply |-> AtClock(GenerateSmart(text, p, rnd, recent).reply, c),
                prof |-> GenerateSmart(text, p, rnd, recent).prof] :
                 rnd \in 0..MaxRnd, recent \in lists, c \in Clocks }
    [] v \in {"voice_chat", "fast_voice_chat"} ->
         { [reply |-> AtClock(GenerateSimple(v, text, p, rnd).reply, c),
            prof |-> [p EXCEPT !.history =
                        p.history \o << UserEntry(text),
                                        AssistantEntry(AtClock(GenerateSimple(v, text, p, rnd).reply, c)) >>]] :
             rnd \in 0..MaxRnd, c \in Clocks }
    [] OTHER ->
         { [reply |-> AtClock(GenerateSimple(v, text, p, rnd).reply, c),
            prof |-> GenerateSimple(v, text, p, rnd).prof] :
             rnd \in 0..MaxRnd, c \in Clocks }

\* The loop body without the test "if user_input is None: continue".
CheckWithoutNoneTest ==
  /\ InMain("check")
  /\ GotoMain("dispatch")
  /\ UNCHANGED << variant, useWhisper, cwdIsTemp, running, files, player,
               captured, userInput, response, farewell, outPath, prof,
               lastStamp, isRecording, audioData, workers, micHolder, sigAt,
               exitStatus, exitCause, turns, synthCalls, written, cleanups,
               deletions, synthErr, wav,
               calibrations, combined >>

\* if not self.running: break / if user_input is None: continue / the exit test
Check ==
  /\ InMain("check")
  /\ IF IsClean /\ ~running
     THEN /\ GotoMain("cl_enter")
          /\ LeaveFor("signal")
          /\ UNCHANGED << farewell, response >>
     ELSE IF userInput.isNone
     THEN /\ GotoMain("loop")
          /\ UNCHANGED << farewell, response, exitCause >>
     ELSE IF IsExitCommand(variant, userInput.text)
     THEN /\ farewell' = TRUE
          /\ response' = IF variant \in DispatchOnExit THEN response ELSE FarewellLiteral
          /\ GotoMain(IF variant \in DispatchOnExit THEN "dispatch" ELSE "synth")
          /\ UNCHANGED exitCause
     ELSE /\ GotoMain("dispatch")
          /\ UNCHANGED << farewell, response, exitCause >>
  /\ UNCHANGED << variant, useWhisper, cwdIsTemp, running, files, player,
               captured, userInput, outPath, prof, lastStamp, isRecording,
               audioData, workers, micHolder, sigAt, exitStatus, turns,
               synthCalls, written, cleanups, deletions, synthErr, wav,
               calibrations, combined >>

\* response = self.generate_response(user_input); an exception of the
\* dispatcher is caught nowhere below main().
Dispatch ==
  /\ InMain("dispatch")
  /\ \E g \in Replies(variant, userInput.text, prof) :
       IF g.reply.idx = Raised
       THEN /\ Raise("Exception")
            /\ UNCHANGED << response, prof, turns >>
       ELSE /\ response' = g.reply
            /\ prof' = g.prof
            /\ turns' = IF farewell THEN turns ELSE turns + 1
            /\ GotoMain("synth")
            /\ UNCHANGED << running, player, captured, userInput, exitStatus,
                            exitCause >>
  /\ UNCHANGED << variant, useWhisper, cwdIsTemp, files, farewell, outPath,
               lastStamp, isRecording, audioData, workers, micHolder, sigAt,
               synthCalls, written, cleanups, deletions, synthErr, wav,
               calibrations, combined >>

\* synthesize_response: (if not self.running: return) wav = self.tts.infer(...)
SynthInfer ==
  /\ InMain("synth")
  /\ synthCalls' = synthCalls + 1
  /\ outPath' = NoPath
  /\ synthErr' = "none"
  /\ IF IsClean /\ ~running
     THEN GotoMain("synth_ret") /\ wav' = NoWave
     ELSE GotoMain("write") /\ \E w \in Waves : wav' = w
  /\ UNCHANGED << variant, useWhisper, cwdIsTemp, running, files, player,
               captured, userInput, response, farewell, prof,
               lastStamp, isRecording, audioData, workers, micHolder, sigAt,
               exitStatus, exitCause, turns, written, cleanups, deletions,
               calibrations, combined >>

\* self.tts.infer raises.
SynthInferFail ==
  /\ InMain("synth")
  /\ ~(IsClean /\ ~running)
  /\ synthCalls' = synthCalls + 1
  /\ outPath' = NoPath
  /\ synthErr' = "reported"
  /\ Raise("Exception")
  /\ UNCHANGED << variant, useWhisper, cwdIsTemp, files, response, farewell,
               prof, lastStamp, isRecording, audioData, workers,
               micHolder, sigAt, turns, written, cleanups, deletions, wav,
               calibrations, combined >>

\* The name of the next artifact: a fresh uuid, the wall clock in
\* milliseconds (which has advanced since the previous call: each call runs
\* a synthesis), or the fixed literal.
ArtifactName ==
  CASE Naming(variant) = "uuid" -> SessionName(Len(written) + 1)
    [] Naming(variant) = "timestamp" -> SessionName(lastStamp + 1)
    [] OTHER -> LiteralName

\* (the normalization block;) output_path = os.path.abspath(...);
\* sf.write(output_path, wav, 24000)
Write ==
  /\ InMain("write")
  /\ outPath' = [dir |-> ArtifactDir, name |-> ArtifactName]
  /\ lastStamp' = IF Naming(variant) = "timestamp" THEN lastStamp + 1 ELSE lastStamp
  /\ files' = files \cup {outPath'}
  /\ written' = Append(written, outPath')
  /\ wav' = Normalize(variant, wav)
  /\ GotoMain(IF IsClean /\ ~running THEN "synth_ret" ELSE "play")
  /\ UNCHANGED << variant, useWhisper, cwdIsTemp, running, player, captured,
               userInput, response, farewell, prof, isRecording, audioData,
               workers, micHolder, sigAt, exitStatus, exitCause, turns,
               synthCalls, cleanups, deletions, synthErr,
               calibrations, combined >>

\* sf.write raises.
WriteFail ==
  /\ InMain("write")
  /\ synthErr' = "reported"
  /\ wav' = NoWave
  /\ Raise("Exception")
  /\ UNCHANGED << variant, useWhisper, cwdIsTemp, files, response, farewell,
               outPath, prof, lastStamp, isRecording, audioData, workers,
               micHolder, sigAt, turns, synthCalls, written, cleanups,
               deletions,
               calibrations, combined >>

\* subprocess.run(["afplay", output_path], ...) starts the player.
Play ==
  /\ InMain("play")
  /\ player' = TRUE
  /\ wav' = NoWave
  /\ GotoMain("playing")
  /\ UNCHANGED << variant, useWhisper, cwdIsTemp, running, files, captured,
               userInput, response, farewell, outPath, prof, lastStamp,
               isRecording, audioData, workers, micHolder, sigAt, exitStatus,
               exitCause, turns, synthCalls, written, cleanups, deletions, synthErr,
               calibrations, combined >>

\* subprocess.run raises (the player cannot be started).
PlayFail ==
  /\ InMain("play")
  /\ synthErr' = "reported"
  /\ wav' = NoWave
  /\ Raise("Exception")
  /\ UNCHANGED << variant, useWhisper, cwdIsTemp, files, response, farewell,
               outPath, prof, lastStamp, isRecording, audioData, workers,
               micHolder, sigAt, turns, synthCalls, written, cleanups,
               deletions,
               calibrations, combined >>

\* The variants that run the player with check=False and never look at
\* the result.
IgnoresPlayerStatus == {"ultra_fast_voice_chat"}

\* The player ends with status 0 or with a nonzero status:
\* if result.returncode != 0: print(f"Audio playback error: {result.stderr}")
PlayEnd ==
  /\ InMain("playing")
  /\ player' = FALSE
  /\ \E rc \in {0, 1} :
       synthErr' = IF rc = 0 THEN synthErr
                   ELSE IF variant \in IgnoresPlayerStatus THEN "silent"
                   ELSE "reported"
  /\ GotoMain("remove")
  /\ UNCHANGED << variant, useWhisper, cwdIsTemp, running, files, captured,
               userInput, response, farewell, outPath, prof, lastStamp,
               isRecording, audioData, workers, micHolder, sigAt, exitStatus,
               exitCause, turns, synthCalls, written, cleanups, deletions, wav,
               calibrations, combined >>

\* if os.path.exists(output_path): os.remove(output_path)
Remove ==
  /\ InMain("remove")
  /\ files' = files \ {outPath}
  /\ deletions' = IF outPath \in files THEN Append(deletions, outPath) ELSE deletions
  /\ GotoMain(IF IsClean THEN "removed" ELSE "synth_ret")
  /\ UNCHANGED << variant, useWhisper, cwdIsTemp, running, player, captured,
               userInput, response, farewell, outPath, prof, lastStamp,
               isRecording, audioData, workers, micHolder, sigAt, exitStatus,
               exitCause, turns, synthCalls, written, cleanups, synthErr, wav,
               calibrations, combined >>

\* clean_exit: leaving the try ... except: pass around the removal.
Removed ==
  /\ InMain("removed")
  /\ GotoMain("synth_ret")
  /\ UNCHANGED << variant, useWhisper, cwdIsTemp, running, files, player,
               captured, userInput, response, farewell, outPath, prof,
               lastStamp, isRecording, audioData, workers, micHolder, sigAt,
               exitStatus, exitCause, turns, synthCalls, written, cleanups,
               deletions, synthErr, wav,
               calibrations, combined >>

\* synthesize_response has returned: break after the farewell pass,
\* otherwise the next iteration.
SynthRet ==
  /\ InMain("synth_ret")
  /\ IF farewell
     THEN /\ LeaveFor("exit_phrase")
          /\ GotoMain(IF IsClean THEN "cl_enter" ELSE "done")
          /\ exitStatus' = IF IsClean THEN exitStatus ELSE "ok"
     ELSE /\ GotoMain("loop")
          /\ UNCHANGED << exitCause, exitStatus >>
  /\ UNCHANGED << variant, useWhisper, cwdIsTemp, running, files, player,
               captured, userInput, response, farewell, outPath, prof,
               lastStamp, isRecording, audioData, workers, micHolder, sigAt,
               turns, synthCalls, written, cleanups, deletions, synthErr, wav,
               calibrations, combined >>

\* Ctrl+C where no handler is installed: KeyboardInterrupt is raised at the
\* instruction the main thread executes.
Interrupt ==
  /\ ~IsClean
  /\ Len(frames) = 1
  /\ MainPc # "done"
  /\ Len(sigAt) < MaxSignals
  /\ sigAt' = Append(sigAt, Top.pc)
  /\ Raise("KeyboardInterrupt")
  /\ UNCHANGED << variant, useWhisper, cwdIsTemp, files, response, farewell,
               outPath, prof, lastStamp, isRecording, audioData, workers,
               micHolder, turns, synthCalls, written, cleanups, deletions, synthErr, wav,
               calibrations, combined >>

\* SIGTERM where no handler is installed: the process is ended.
Terminate ==
  /\ ~IsClean
  /\ Len(frames) = 1
  /\ MainPc # "done"
  /\ Len(sigAt) < MaxSignals
  /\ sigAt' = Append(sigAt, Top.pc)
  /\ GotoMain("done")
  /\ exitStatus' = "killed"
  /\ LeaveFor("signal")
  /\ UNCHANGED << variant, useWhisper, cwdIsTemp, running, files, player,
               captured, userInput, response, farewell, outPath, prof,
               lastStamp, isRecording, audioData, workers, micHolder, turns,
               synthCalls, written, cleanups, deletions, synthErr, wav,
               calibrations, combined >>

SeqNext ==
  \/ LoopTop \/ ListenOk \/ ListenFail \/ ReadLine \/ ReadEof
  \/ AsrTmp \/ AsrTmpFail \/ AsrWhisper \/ AsrWhisperFail
  \/ AsrGoogle \/ AsrGoogleFail \/ Asr2 \/ AsrUnlink \/ AsrAfter
  \/ Check \/ Dispatch \/ SynthInfer \/ SynthInferFail
  \/ Write \/ WriteFail \/ Play \/ PlayFail \/ PlayEnd
  \/ Remove \/ Removed \/ SynthRet \/ Interrupt \/ Terminate

-----------------------------------------------------------------------------
(* clean_exit: signal_handler and cleanup().  A handler runs on the main   *)
(* thread, on top of whatever the thread was executing, and another signal *)
(* may arrive while it runs.                                               *)

\* The names cleanup() selects from os.listdir(tempfile.gettempdir()):
\* file.startswith("temp_response_") and file.endswith(".wav").
Listed == { f.name : f \in { g \in files : g.dir = "tmp" /\ MatchesCleanupPattern(g.name) } }

\* A delivery with no handler registered and the default disposition: the
\* process is killed; for comparison.
SignalDefaultDisposition ==
  /\ IsClean
  /\ MainPc # "done"
  /\ Len(sigAt) < MaxSignals
  /\ sigAt' = Append(sigAt, Top.pc)
  /\ frames' = << [frames[1] EXCEPT !.pc = "done"] >>
  /\ exitStatus' = "killed"
  /\ LeaveFor("signal")
  /\ UNCHANGED << variant, useWhisper, cwdIsTemp, running, files, player,
               captured, userInput, response, farewell, outPath, prof,
               lastStamp, isRecording, audioData, workers, micHolder, turns,
               synthCalls, written, cleanups, deletions, synthErr, wav,
               calibrations, combined >>

\* A delivery that nothing handles (no handler registered, the signal
\* ignored), for comparison.
SignalWithoutHandler ==
  /\ IsClean
  /\ MainPc # "done"
  /\ Len(sigAt) < MaxSignals
  /\ sigAt' = Append(sigAt, Top.pc)
  /\ UNCHANGED << variant, useWhisper, cwdIsTemp, frames, running, files,
               player, captured, userInput, response, farewell, outPath,
               prof, lastStamp, isRecording, audioData, workers, micHolder,
               exitStatus, exitCause, turns, synthCalls, written, cleanups,
               deletions, synthErr, wav,
               calibrations, combined >>

\* SIGINT or SIGTERM is delivered.  signal_handler sets self.running = False
\* and calls cleanup(), which kills the players and lists the directory.
Signal ==
  /\ IsClean
  /\ MainPc # "done"
  /\ Len(sigAt) < MaxSignals
  /\ sigAt' = Append(sigAt, Top.pc)
  /\ running' = FALSE
  /\ cleanups' = cleanups + 1
  /\ player' = FALSE
  /\ frames' = Append(frames, [Frame("cl_iter") EXCEPT !.todo = Listed])
  /\ UNCHANGED << variant, useWhisper, cwdIsTemp, files, captured, userInput,
               response, farewell, outPath, prof, lastStamp, isRecording,
               audioData, workers, micHolder, exitStatus, exitCause, turns,
               synthCalls, written, deletions, synthErr, wav,
               calibrations, combined >>

\* The finally block of run_conversation calls cleanup().
CleanupBegin ==
  /\ InMain("cl_enter")
  /\ cleanups' = cleanups + 1
  /\ player' = FALSE
  /\ frames' = << [frames[1] EXCEPT !.pc = "cl_iter", !.todo = Listed] >>
  /\ UNCHANGED << variant, useWhisper, cwdIsTemp, running, files, captured,
               userInput, response, farewell, outPath, prof, lastStamp,
               isRecording, audioData, workers, micHolder, sigAt, exitStatus,
               exitCause, turns, synthCalls, written, deletions, synthErr, wav,
               calibrations, combined >>

\* for file in os.listdir(temp_dir): the next selected name, in any order.
CleanupIter ==
  /\ Top.pc = "cl_iter"
  /\ \E n \in Top.todo :
       frames' = [frames EXCEPT ![Len(frames)].pc = "cl_rm",
                                ![Len(frames)].todo = Top.todo \ {n},
                                ![Len(frames)].cur = n]
  /\ UNCHANGED << variant, useWhisper, cwdIsTemp, running, files, player,
               captured, userInput, response, farewell, outPath, prof,
               lastStamp, isRecording, audioData, workers, micHolder, sigAt,
               exitStatus, exitCause, turns, synthCalls, written, cleanups,
               deletions, synthErr, wav,
               calibrations, combined >>

\* A removal that leaves the file where it is, for comparison.
CleanupRemoveKeeping ==
  /\ Top.pc = "cl_rm"
  /\ Goto("cl_iter")
  /\ UNCHANGED << variant, useWhisper, cwdIsTemp, running, files, player,
               captured, userInput, response, farewell, outPath, prof,
               lastStamp, isRecording, audioData, workers, micHolder, sigAt,
               exitStatus, exitCause, turns, synthCalls, written, cleanups,
               deletions, synthErr, wav, calibrations, combined >>

\* try: os.remove(os.path.join(temp_dir, file)) except: pass
CleanupRemove ==
  /\ Top.pc = "cl_rm"
  /\ LET f == [dir |-> "tmp", name |-> Top.cur]
     IN  /\ files' = files \ {f}
         /\ deletions' = IF f \in files THEN Append(deletions, f) ELSE deletions
  /\ Goto("cl_iter")
  /\ UNCHANGED << variant, useWhisper, cwdIsTemp, running, player, captured,
               userInput, response, farewell, outPath, prof, lastStamp,
               isRecording, audioData, workers, micHolder, sigAt, exitStatus,
               exitCause, turns, synthCalls, written, cleanups, synthErr, wav,
               calibrations, combined >>

\* A failing removal without the inner try: the except Exception of
\* cleanup() ends the loop; for comparison.
CleanupRemoveFailEscaping ==
  /\ Top.pc = "cl_rm"
  /\ [dir |-> "tmp", name |-> Top.cur] \in files
  /\ frames' = [frames EXCEPT ![Len(frames)].pc = "cl_iter",
                              ![Len(frames)].todo = {},
                              ![Len(frames)].failed = @ \cup {Top.cur}]
  /\ UNCHANGED << variant, useWhisper, cwdIsTemp, running, files, player,
               captured, userInput, response, farewell, outPath, prof,
               lastStamp, isRecording, audioData, workers, micHolder, sigAt,
               exitStatus, exitCause, turns, synthCalls, written, cleanups,
               deletions, synthErr, wav, calibrations, combined >>

\* os.remove raises for a file that exists (it is in use, or may not be
\* deleted): except: pass, and the loop goes on with the next name.
CleanupRemoveFail ==
  /\ Top.pc = "cl_rm"
  /\ [dir |-> "tmp", name |-> Top.cur] \in files
  /\ frames' = [frames EXCEPT ![Len(frames)].pc = "cl_iter",
                              ![Len(frames)].failed = @ \cup {Top.cur}]
  /\ UNCHANGED << variant, useWhisper, cwdIsTemp, running, files, player,
               captured, userInput, response, farewell, outPath, prof,
               lastStamp, isRecording, audioData, workers, micHolder, sigAt,
               exitStatus, exitCause, turns, synthCalls, written, cleanups,
               deletions, synthErr, wav, calibrations, combined >>

\* cleanup() returns to the finally block of run_conversation, which ends
\* the program (re-raising what is pending).
CleanupReturn ==
  /\ InMain("cl_iter")
  /\ Top.todo = {}
  /\ GotoMain("done")
  /\ exitStatus' = "ok"
  /\ UNCHANGED << variant, useWhisper, cwdIsTemp, running, files, player,
               captured, userInput, response, farewell, outPath, prof,
               lastStamp, isRecording, audioData, workers, micHolder, sigAt,
               exitCause, turns, synthCalls, written, cleanups, deletions, synthErr, wav,
               calibrations, combined >>

\* cleanup() returns to signal_handler: sys.exit(0) raises SystemExit in the
\* interrupted frame.
HandlerExit ==
  /\ Len(frames) > 1
  /\ Top.pc = "cl_iter"
  /\ Top.todo = {}
  /\ RaiseIn(SubSeq(frames, 1, Len(frames) - 1), "SystemExit")
  /\ UNCHANGED << variant, useWhisper, cwdIsTemp, files, response, farewell,
               outPath, prof, lastStamp, isRecording, audioData, workers,
               micHolder, sigAt, turns, synthCalls, written, cleanups,
               deletions, synthErr, wav,
               calibrations, combined >>

CleanNext ==
  \/ Signal \/ CleanupBegin \/ CleanupIter \/ CleanupRemove
  \/ CleanupReturn \/ HandlerExit

-----------------------------------------------------------------------------
(* push_to_talk: listen_with_push_to_talk and the record_audio threads.    *)

Alive(i) == workers[i].pc # "w_done"
AliveWorkers == { i \in 1..Len(workers) : Alive(i) }

\* self.is_recording = True; self.audio_data = []; recording_thread.start()
PttStart ==
  /\ InMain("ptt_start")
  /\ Len(workers) < MaxWorkers
  /\ isRecording' = TRUE
  /\ audioData' = <<>>
  /\ combined' = <<>>
  /\ workers' = Append(workers, [pc |-> "w_enter", n |-> 0])
  /\ GotoMain("ptt_wait")
  /\ UNCHANGED << variant, useWhisper, cwdIsTemp, running, files, player,
               captured, userInput, response, farewell, outPath, prof,
               lastStamp, micHolder, sigAt, exitStatus, exitCause, turns,
               synthCalls, written, cleanups, deletions, synthErr, wav,
               calibrations >>

\* keyboard.wait('space') returns; self.is_recording = False
PttRelease ==
  /\ InMain("ptt_wait")
  /\ isRecording' = FALSE
  /\ GotoMain("ptt_join")
  /\ UNCHANGED << variant, useWhisper, cwdIsTemp, running, files, player,
               captured, userInput, response, farewell, outPath, prof,
               lastStamp, audioData, workers, micHolder, sigAt, exitStatus,
               exitCause, turns, synthCalls, written, cleanups, deletions, synthErr, wav,
               calibrations, combined >>

\* keyboard.wait('space') raises (the hook cannot be installed).
PttWaitFail ==
  /\ InMain("ptt_wait")
  /\ Raise("Exception")
  /\ UNCHANGED << variant, useWhisper, cwdIsTemp, files, response, farewell,
               outPath, prof, lastStamp, isRecording, audioData, workers,
               micHolder, sigAt, turns, synthCalls, written, cleanups,
               deletions, synthErr, wav,
               calibrations, combined >>

\* recording_thread.join(timeout=1) returns: the thread has ended, or one
\* second has passed.
PttJoin ==
  /\ InMain("ptt_join")
  /\ GotoMain("ptt_read")
  /\ UNCHANGED << variant, useWhisper, cwdIsTemp, running, files, player,
               captured, userInput, response, farewell, outPath, prof,
               lastStamp, isRecording, audioData, workers, micHolder, sigAt,
               exitStatus, exitCause, turns, synthCalls, written, cleanups,
               deletions, synthErr, wav,
               calibrations, combined >>

\* Bytes of raw data one recorded chunk carries.
ChunkBytes == 2

\* chunk.get_raw_data(): the bytes of chunk c, each one named by the chunk
\* it belongs to and its position in it.
RawData(c) == [j \in 1..ChunkBytes |-> [w |-> c.w, k |-> c.k, j |-> j]]

\* A join that puts the chunks in the opposite order, for comparison.
RECURSIVE JoinReversed(_)
JoinReversed(chunks) ==
  IF chunks = <<>> THEN <<>>
  ELSE JoinReversed(Tail(chunks)) \o RawData(Head(chunks))

\* b''.join([chunk.get_raw_data() for chunk in self.audio_data])
RECURSIVE Join(_)
Join(chunks) ==
  IF chunks = <<>> THEN <<>>
  ELSE RawData(Head(chunks)) \o Join(Tail(chunks))

\* The read without the test "if not self.audio_data: return None".
PttReadUnguarded ==
  /\ InMain("ptt_read")
  /\ captured' = TRUE
  /\ combined' = Join(audioData)
  /\ GotoMain(IF useWhisper THEN "asr_tmp" ELSE "asr")
  /\ UNCHANGED << variant, useWhisper, cwdIsTemp, running, files, player,
               userInput, response, farewell, outPath, prof, lastStamp,
               isRecording, audioData, workers, micHolder, sigAt, exitStatus,
               exitCause, turns, synthCalls, written, cleanups, deletions, synthErr, wav,
               calibrations >>

\* if not self.audio_data: return None; otherwise the chunks are combined
\* and handed to the recognizer.
PttRead ==
  /\ InMain("ptt_read")
  /\ IF audioData = <<>>
     THEN GotoMain("check") /\ UNCHANGED << captured, combined >>
     ELSE /\ captured' = TRUE
          /\ combined' = Join(audioData)
          /\ GotoMain(IF useWhisper THEN "asr_tmp" ELSE "asr")
  /\ UNCHANGED << variant, useWhisper, cwdIsTemp, running, files, player,
               userInput, response, farewell, outPath, prof, lastStamp,
               isRecording, audioData, workers, micHolder, sigAt, exitStatus,
               exitCause, turns, synthCalls, written, cleanups, deletions, synthErr, wav,
               calibrations >>

\* A worker that calibrates on entering the microphone, for comparison.
WorkerEnterCalibrating(i) ==
  /\ workers[i].pc = "w_enter"
  /\ calibrations' = calibrations + 1
  /\ IF micHolder = 0
     THEN /\ micHolder' = i
          /\ workers' = [workers EXCEPT ![i].pc = "w_loop"]
     ELSE /\ workers' = [workers EXCEPT ![i].pc = "w_done"]
          /\ UNCHANGED micHolder
  /\ UNCHANGED << variant, useWhisper, cwdIsTemp, frames, running, files,
               player, captured, userInput, response, farewell, outPath, prof,
               lastStamp, isRecording, audioData, sigAt, exitStatus,
               exitCause, turns, synthCalls, written, cleanups, deletions,
               synthErr, wav, combined >>

\* record_audio: with self.microphone as source.  A Microphone that is
\* already inside a context manager refuses to be entered again; the
\* except Exception of record_audio ends the thread.
WorkerEnter(i) ==
  /\ workers[i].pc = "w_enter"
  /\ IF micHolder = 0
     THEN /\ micHolder' = i
          /\ workers' = [workers EXCEPT ![i].pc = "w_loop"]
     ELSE /\ workers' = [workers EXCEPT ![i].pc = "w_done"]
          /\ UNCHANGED micHolder
  /\ UNCHANGED << variant, useWhisper, cwdIsTemp, frames, running, files,
               player, captured, userInput, response, farewell, outPath, prof,
               lastStamp, isRecording, audioData, sigAt, exitStatus,
               exitCause, turns, synthCalls, written, cleanups, deletions, synthErr, wav,
               calibrations, combined >>

\* while self.is_recording:
WorkerLoop(i) ==
  /\ workers[i].pc = "w_loop"
  /\ IF isRecording
     THEN /\ workers' = [workers EXCEPT ![i].pc = "w_listen"]
          /\ UNCHANGED micHolder
     ELSE /\ workers' = [workers EXCEPT ![i].pc = "w_done"]
          /\ micHolder' = 0
  /\ UNCHANGED << variant, useWhisper, cwdIsTemp, frames, running, files,
               player, captured, userInput, response, farewell, outPath, prof,
               lastStamp, isRecording, audioData, sigAt, exitStatus,
               exitCause, turns, synthCalls, written, cleanups, deletions, synthErr, wav,
               calibrations, combined >>

\* audio_chunk = self.recognizer.listen(...); self.audio_data.append(audio_chunk)
WorkerChunk(i) ==
  /\ workers[i].pc = "w_listen"
  /\ workers[i].n < MaxChunks
  /\ audioData' = Append(audioData, [w |-> i, k |-> workers[i].n + 1,
                                     late |-> ~isRecording])
  /\ workers' = [workers EXCEPT ![i].pc = "w_loop", ![i].n = workers[i].n + 1]
  /\ UNCHANGED << variant, useWhisper, cwdIsTemp, frames, running, files,
               player, captured, userInput, response, farewell, outPath, prof,
               lastStamp, isRecording, micHolder, sigAt, exitStatus,
               exitCause, turns, synthCalls, written, cleanups, deletions, synthErr, wav,
               calibrations, combined >>

\* recognizer.listen(source, timeout=0.1, ...) raises WaitTimeoutError: the
\* except Exception of record_audio ends the thread.
WorkerTimeout(i) ==
  /\ workers[i].pc = "w_listen"
  /\ workers' = [workers EXCEPT ![i].pc = "w_done"]
  /\ micHolder' = 0
  /\ UNCHANGED << variant, useWhisper, cwdIsTemp, frames, running, files,
               player, captured, userInput, response, farewell, outPath, prof,
               lastStamp, isRecording, audioData, sigAt, exitStatus,
               exitCause, turns, synthCalls, written, cleanups, deletions, synthErr, wav,
               calibrations, combined >>

PttNext ==
  \/ PttStart \/ PttRelease \/ PttWaitFail \/ PttJoin \/ PttRead
  \/ \E i \in 1..Len(workers) :
       WorkerEnter(i) \/ WorkerLoop(i) \/ WorkerChunk(i) \/ WorkerTimeout(i)

-----------------------------------------------------------------------------
(* The specification.                                                      *)

Next == SeqNext \/ CleanNext \/ PttNext

Spec == Init /\ [][Next]_vars

\* push_to_talk_chat alone: the steps of its loop and of its workers.
InitPtt == Init /\ IsPtt

NextPtt ==
  \/ LoopTop \/ AsrTmp \/ AsrTmpFail \/ AsrWhisper \/ AsrWhisperFail
  \/ AsrGoogle \/ AsrGoogleFail \/ AsrUnlink \/ AsrAfter
  \/ Check \/ Dispatch \/ SynthInfer \/ SynthInferFail
  \/ Write \/ WriteFail \/ Play \/ PlayFail \/ PlayEnd
  \/ Remove \/ SynthRet \/ Interrupt \/ Terminate
  \/ PttNext

SpecPtt == InitPtt /\ [][NextPtt]_vars

\* The clean_exit program on its own.
InitClean == Init /\ IsClean

NextClean ==
  \/ LoopTop \/ ListenOk \/ ListenFail
  \/ AsrTmp \/ AsrTmpFail \/ AsrWhisper \/ AsrWhisperFail
  \/ AsrUnlink \/ AsrAfter
  \/ Check \/ Dispatch \/ SynthInfer \/ SynthInferFail
  \/ Write \/ WriteFail \/ Play \/ PlayFail \/ PlayEnd
  \/ Remove \/ Removed \/ SynthRet
  \/ Signal \/ CleanupBegin \/ CleanupIter \/ CleanupRemove
  \/ CleanupReturn \/ HandlerExit

SpecClean == InitClean /\ [][NextClean]_vars

\* The steps of the clean_exit program itself: everything but the arrival
\* of a signal.  The thread is scheduled as long as it has a step to take:
\* the capture returns or times out, the player ends, the handler goes on.
CleanProgramStep ==
  \/ LoopTop \/ ListenOk \/ ListenFail
  \/ AsrTmp \/ AsrTmpFail \/ AsrWhisper \/ AsrWhisperFail
  \/ AsrUnlink \/ AsrAfter
  \/ Check \/ Dispatch \/ SynthInfer \/ SynthInferFail
  \/ Write \/ WriteFail \/ Play \/ PlayFail \/ PlayEnd
  \/ Remove \/ Removed \/ SynthRet
  \/ CleanupBegin \/ CleanupIter \/ CleanupRemove
  \/ CleanupReturn \/ HandlerExit

SpecCleanLive == SpecClean /\ WF_vars(CleanProgramStep)

\* A second clean_exit session, started in the temp directory, writes an
\* artifact of its own there: temp_response_<its clock reading>.wav.  One
\* such artifact is followed.
OtherSessionName == SessionName(Len(Digits))
OtherSessionFile == [dir |-> "tmp", name |-> OtherSessionName]

OtherSessionWrites ==
  /\ IsClean
  /\ MainPc # "done"
  /\ OtherSessionFile \notin files
  /\ \A i \in 1..Len(deletions) : deletions[i] # OtherSessionFile
  /\ files' = files \cup {OtherSessionFile}
  /\ UNCHANGED << variant, useWhisper, cwdIsTemp, frames, running, player,
               captured, userInput, response, farewell, outPath, prof,
               lastStamp, isRecording, audioData, workers, micHolder, sigAt,
               exitStatus, exitCause, turns, synthCalls, written, cleanups,
               deletions, synthErr, wav, calibrations, combined >>

\* The clean_exit program next to that second session.
NextShared == NextClean \/ OtherSessionWrites

SpecShared == InitClean /\ [][NextShared]_vars

\* The clean_exit program where a removal made by cleanup() may fail.
NextCleanFail == NextClean \/ CleanupRemoveFail

SpecCleanFail == InitClean /\ [][NextCleanFail]_vars

-----------------------------------------------------------------------------
(* Properties: the exit pass.                                              *)

\* The conversation loop has been left.
Stopped == MainPc \in {"done", "cl_enter", "cl_iter", "cl_rm"} \/ exitCause # ""

\* run_conversation is testing a transcript that contains an exit phrase.
TestingExitPhrase ==
  /\ InMain("check")
  /\ ~(IsClean /\ ~running)
  /\ ~userInput.isNone
  /\ ContainsExitPhrase(userInput.text)

\* C1: in every variant, a transcript that matches an exit phrase (goodbye,
\* quit, exit, stop, bye) starts the farewell pass when run_conversation
\* tests it (no signal arriving); the farewell pass calls
\* synthesize_response exactly once and then the loop is left; once the
\* program has stopped, nothing is captured, dispatched or synthesized.
C1_ExitPhraseThenStopped ==
  /\ [][(TestingExitPhrase /\ sigAt' = sigAt) => farewell']_vars
  /\ [](exitCause = "exit_phrase" => synthCalls = 1)
  /\ [][MainPc = "done" =>
          /\ MainPc' = "done"
          /\ UNCHANGED << captured, turns, synthCalls, written >>]_vars

\* The final pass of a variant that dispatches the exit utterance has its
\* reply: synthesize_response is running or has returned.
InFinalPass ==
  /\ variant \in DispatchOnExit
  /\ farewell
  /\ MainPc \in SynthPcs \cup {"synth_ret"}

\* C2: in fixed_edge, push_to_talk and smart_edge, for every transcript that
\* contains an exit phrase the reply synthesized in the final pass is the
\* reply of the goodbye rule.
C2_FinalPassReplyIsFarewell ==
  (InFinalPass /\ ContainsExitPhrase(userInput.text)) => response.rule = "goodbye"

\* C3: run_conversation leaves its loop only after an exit-phrase match or a
\* shutdown signal / interrupt; no outcome of one turn's capture,
\* transcription, dispatch, synthesis or playback ends the loop.
C3_LoopEndsOnlyOnExitOrSignal ==
  Stopped => exitCause \in {"exit_phrase", "signal"}

-----------------------------------------------------------------------------
(* Properties: sequencing and artifacts.                                   *)

\* A record_audio thread is capturing: it is inside recognizer.listen.
Capturing(i) == workers[i].pc = "w_listen"

\* The stage the main thread is in.
Stage ==
  CASE MainPc \in ListenPcs -> "capture"
    [] MainPc \in AsrPcs -> "transcription"
    [] MainPc = "dispatch" -> "dispatch"
    [] MainPc \in {"synth", "write", "play"} -> "synthesis"
    [] MainPc = "playing" -> "playback"
    [] OTHER -> "none"

\* C4: the stages of a turn never overlap, and the capture of the next turn
\* never begins before the playback of the previous one has ended: while
\* the program runs, nothing is captured during transcription, dispatch,
\* synthesis or playback, and the player runs only in the playback stage.
C4_StagesNeverOverlap ==
  MainPc # "done" =>
     /\ \A i \in 1..Len(workers) : Capturing(i) => Stage \in {"capture", "none"}
     /\ player => (Stage = "playback" \/ Len(frames) > 1)

\* C5: when a call of synthesize_response that wrote an artifact returns,
\* the artifact does not exist, whatever the playback did.
C5_ArtifactGoneOnReturn ==
  (InMain("synth_ret") /\ outPath # NoPath) => outPath \notin files

Count(seq, x) == Cardinality({ i \in 1..Len(seq) : seq[i] = x })

\* One shutdown signal was delivered, and it interrupted the first call of
\* synthesize_response after it had written its artifact and before it had
\* removed it.
SignalledBeforeRemoval ==
  /\ Len(sigAt) = 1
  /\ sigAt[1] \in {"play", "playing", "remove"}
  /\ Len(written) = 1

\* C6: in clean_exit, every artifact written by synthesize_response is
\* deleted exactly once, by cleanup() when a shutdown signal interrupts the
\* turn after the artifact was written and before it was removed; once the
\* process has stopped no artifact of the session remains.
C6_ArtifactsDeletedOnceByStop ==
  (IsClean /\ MainPc = "done" /\ SignalledBeforeRemoval) =>
     \A i \in 1..Len(written) :
        /\ written[i] \notin files
        /\ Count(deletions, written[i]) = 1

\* C7: across the calls of synthesize_response of one session, no two calls
\* write to the same artifact path.
C7_ArtifactPathsUnique ==
  \A i, j \in 1..Len(written) : i # j => written[i] # written[j]

-----------------------------------------------------------------------------
(* Properties: shutdown of clean_exit and the push-to-talk worker.         *)

\* C8: in clean_exit, when one signal is delivered while the engine is
\* blocked in capture, cleanup() has executed exactly once when the process
\* has stopped (signal_handler and the finally block counted together), and
\* the exit status is success.
C8_OneSignalOneCleanup ==
  (IsClean /\ MainPc = "done" /\ sigAt = <<"listen">>) =>
     (cleanups = 1 /\ exitStatus = "ok")

\* The calls of cleanup() in progress.
CleanupsInProgress == { i \in 1..Len(frames) : frames[i].pc \in {"cl_iter", "cl_rm"} }

\* C9: in clean_exit, a signal delivered while cleanup() is executing does
\* not start another execution of cleanup(): cleanup is never re-entered.
C9_CleanupNotReentered ==
  /\ Cardinality(CleanupsInProgress) <= 1
  /\ [][(CleanupsInProgress # {} /\ sigAt' # sigAt) => cleanups' = cleanups]_vars

\* C10: in push_to_talk, at most one capture worker thread is alive at any
\* time.
C10_AtMostOneWorkerAlive ==
  Cardinality(AliveWorkers) <= 1

-----------------------------------------------------------------------------
(* Properties: the push-to-talk buffer.                                    *)

\* Worker i may still execute self.audio_data.append: it is inside
\* recognizer.listen, or it has yet to test a flag that is still set.
CanStillAppend(i) ==
  \/ workers[i].pc = "w_listen"
  \/ workers[i].pc \in {"w_enter", "w_loop"} /\ isRecording

\* C11: in push_to_talk_chat the control thread reads audio_data only when
\* no capture worker that can still append to it is alive, also after the
\* join has reached its timeout.
C11_ReadOnlyAfterWorkersEnded ==
  InMain("ptt_read") => \A i \in 1..Len(workers) : ~CanStillAppend(i)

\* The release came before any chunk was appended: whatever the buffer
\* holds was appended after is_recording had been cleared.
ReleasedBeforeAnyChunk ==
  \A k \in 1..Len(audioData) : audioData[k].late

\* The control thread leaves the read of audio_data by a step of its own.
ReadStep ==
  /\ InMain("ptt_read")
  /\ MainPc' # "ptt_read"
  /\ sigAt' = sigAt

\* C12 as stated: when the release arrives before the worker has appended
\* any chunk, listen_with_push_to_talk returns None without transcribing.
C12_ReleaseBeforeChunkReturnsNone ==
  [][(ReadStep /\ ReleasedBeforeAnyChunk) => (MainPc' = "check" /\ userInput'.isNone)]_vars

\* C12: when the buffer is empty at the read that follows the join,
\* listen_with_push_to_talk returns None (no transcription, nothing raised)
\* and run_conversation goes on to the next capture.
C12_EmptyBufferReturnsNone ==
  /\ [][(ReadStep /\ audioData = <<>>) =>
          (MainPc' = "check" /\ userInput'.isNone /\ ~captured'
           /\ exitCause' = exitCause /\ files' = files)]_vars
  /\ [][(InMain("check") /\ userInput.isNone /\ MainPc' # "check" /\ sigAt' = sigAt) =>
          MainPc' = "loop"]_vars
  /\ [][(InMain("loop") /\ MainPc' # "loop" /\ sigAt' = sigAt) =>
          MainPc' = "ptt_start"]_vars

\* An empty capture has been reported: the flag is cleared, the buffer is
\* empty and run_conversation holds None.
C12_EmptyCaptureReported ==
  /\ IsPtt /\ InMain("check") /\ userInput.isNone
  /\ audioData = <<>> /\ ~isRecording /\ Len(workers) = 1

-----------------------------------------------------------------------------
(* Properties: failures inside one turn.                                   *)

\* The outcomes of a capture or a transcription that carry no text: the
\* listen timeout, unintelligible audio, a service error.
NoTextErrors == {"WaitTimeoutError", "UnknownValueError", "RequestError"}

\* The speech variants (text_to_voice_chat reads a line instead).
SpeechVariants == Variants \ {"text_to_voice_chat"}

\* A step of the main thread that no signal interrupts, in a session that
\* has not been told to stop.
OwnStep == sigAt' = sigAt /\ ~(IsClean /\ ~running)

\* C13: a capture or transcription without text (timeout, no speech,
\* unintelligible audio, service error) hands None to the loop, which goes
\* back to listening; the profile (history, name, topics, counter) changes
\* only when a text is dispatched.
C13_NoTextLeavesProfile ==
  /\ [](variant \in SpeechVariants =>
          \A e \in NoTextErrors, pc \in {"listen", "asr", "asr2", "ptt_wait"} :
            LET l == Land(variant, useWhisper, pc, e)
            IN  \/ l.pc = "check" /\ l.none
                \/ l.pc \in {"asr2", "asr_unlink"})
  /\ [][prof' # prof => (InMain("dispatch") /\ ~userInput.isNone)]_vars
  /\ [][(InMain("check") /\ userInput.isNone /\ MainPc' # "check" /\ OwnStep) =>
          MainPc' = "loop"]_vars
  /\ [][(InMain("loop") /\ MainPc' # "loop" /\ OwnStep) =>
          MainPc' \in {"listen", "ptt_start"}]_vars

\* A capture that yielded no text, after a turn that filled the profile.
C13_NoTextAfterATurn ==
  /\ InMain("check") /\ userInput.isNone /\ sigAt = <<>>
  /\ turns = 1 /\ prof.history # <<>>
  /\ variant \in {"smart_edge_voice_chat", "clean_exit_voice_chat"}

\* C14: when the TTS collaborator raises, or the player exits nonzero or
\* cannot be started, synthesize_response reports the error, returns
\* without raising, and run_conversation goes on to the next capture.
C14_SynthFailureReportedAndSurvived ==
  /\ [](synthErr # "silent")
  /\ [][(MainPc \in SynthPcs /\ OwnStep) => MainPc' \in SynthPcs \cup {"synth_ret"}]_vars
  /\ [][(InMain("synth_ret") /\ synthErr # "none" /\ ~farewell
          /\ MainPc' # "synth_ret" /\ OwnStep) => MainPc' = "loop"]_vars

-----------------------------------------------------------------------------
(* Properties: the dispatcher.                                             *)

\* The dispatchers that remember the user's name.
NameMemoryVariants ==
  {"fixed_edge_voice_chat", "push_to_talk_chat", "smart_edge_voice_chat"}

N_Dave == <<"D","a","v","e">>

\* C15: with no name stored yet, an utterance with a self-introduction cue
\* stores the token that follows the cue; 'Hi, my name is Dave' stores Dave.
C15_NameIsTokenAfterCue ==
  (variant \in NameMemoryVariants /\ InMain("synth") /\ userInput = Some(T_dave))
    => prof.userName = N_Dave

-----------------------------------------------------------------------------
(* The conversation seen from the dispatcher: each turn hears one          *)
(* utterance and speaks one reply.                                         *)

MaxUtterances == 4

T_what_time == <<"w","h","a","t"," ","t","i","m","e"," ","i","s"," ","i","t">>
T_this == <<"t","h","i","s">>
Utterances == Transcripts \cup {T_what_time, T_this}

\* listen_for_speech (input() in text_to_voice) returning a text.
Hear ==
  /\ MainPc \in {"listen", "ptt_start"}
  /\ Len(frames) = 1
  /\ turns < MaxUtterances
  /\ \E u \in Utterances : userInput' = Some(u)
  /\ captured' = TRUE
  /\ GotoMain("check")
  /\ UNCHANGED << variant, useWhisper, cwdIsTemp, running, files, player,
               response, farewell, outPath, prof, lastStamp, isRecording,
               audioData, workers, micHolder, sigAt, exitStatus, exitCause,
               turns, synthCalls, written, cleanups, deletions, synthErr, wav,
               calibrations, combined >>

\* synthesize_response returning after the reply was played, the loop
\* going on when the turn was not the farewell.
Spoken ==
  /\ InMain("synth")
  /\ ~farewell
  /\ synthCalls' = synthCalls + 1
  /\ GotoMain("loop")
  /\ UNCHANGED << variant, useWhisper, cwdIsTemp, running, files, player,
               captured, userInput, response, farewell, outPath, prof,
               lastStamp, isRecording, audioData, workers, micHolder, sigAt,
               exitStatus, exitCause, turns, written, cleanups, deletions,
               synthErr, wav,
               calibrations, combined >>

InitTalk == Init

NextTalk == LoopTop \/ Hear \/ Check \/ Dispatch \/ Spoken

SpecTalk == InitTalk /\ [][NextTalk]_vars

\* The table a dispatcher walks and the test of its i-th branch.
TableOf(v) == IF v = "smart_edge_voice_chat" THEN SmartEdgeRules ELSE RulesOf(v)

BranchTaken(v, i, text) ==
  IF v = "smart_edge_voice_chat"
  THEN SmartMatches(SmartEdgeRules[i], Lower(text), ExtractKeywords(text))
  ELSE AnyIn(RulesOf(v)[i].keys, Lower(text))

\* The branch a reply came from (the emotions branch has three pools).
BranchOf(r) ==
  IF r.rule \in {"emotions_positive", "emotions_negative"} THEN "emotions" ELSE r.rule

ElseBranches == {"default", "contextual", "contextual_generic"}

\* C16: the reply to a dispatched utterance comes from the first branch, in
\* table order, whose test the utterance passes, whatever later branches it
\* also passes and however long their keywords are; when no branch passes,
\* the reply comes from the final else.
C16_FirstMatchingRuleWins ==
  (InMain("synth") /\ response.rule \notin {"none", "farewell_literal"})
    => LET t == TableOf(variant)
           u == userInput.text
       IN  /\ \A i \in 1..Len(t) :
                (BranchTaken(variant, i, u)
                   /\ \A j \in 1..(i - 1) : ~BranchTaken(variant, j, u))
                  => BranchOf(response) = t[i].name
           /\ (\A i \in 1..Len(t) : ~BranchTaken(variant, i, u))
                => response.rule \in ElseBranches

\* "hi, bye" passes the greeting test ('hi') and the later goodbye test
\* ('bye', the longer keyword) and is answered by the greeting branch.
C16_GreetingBeforeGoodbye ==
  /\ variant = "fixed_edge_voice_chat"
  /\ InMain("synth")
  /\ userInput = Some(T_hi_bye)
  /\ response.rule = "greeting"
  /\ \E i, j \in 1..Len(FixedEdgeRules) :
       /\ i < j
       /\ BranchTaken(variant, i, T_hi_bye)
       /\ BranchTaken(variant, j, T_hi_bye)

\* Number of texts the branch of a reply picks from.
PoolOf(v, r) ==
  CASE r.rule = "default" ->
         IF v = "smart_edge_voice_chat" THEN 15 ELSE DefaultPool(v).pool
    [] r.rule \in {"contextual", "contextual_generic", "emotions_positive",
                   "emotions_negative"} -> 4
    [] OTHER ->
         LET t == TableOf(v)
         IN  IF \E i \in 1..Len(t) : t[i].name = r.rule
             THEN t[CHOOSE i \in 1..Len(t) : t[i].name = r.rule].pool
             ELSE 0

\* C17: whatever the utterance and whatever profile and history the
\* conversation has built up, the call of the dispatcher returns to the loop
\* with a reply that is one of the texts of a non-empty pool, and raises
\* nothing; an utterance that passes no branch is answered from the else
\* pool, which is not empty in any variant.
C17_DispatcherAlwaysReplies ==
  [][InMain("dispatch")
          => /\ MainPc' = "synth"
             /\ Len(frames') = 1
             /\ exitStatus' = exitStatus
             /\ response'.rule # "none"
             /\ response'.idx \in 0..(PoolOf(variant, response') - 1)
             /\ ((\A i \in 1..Len(TableOf(variant)) :
                    ~BranchTaken(variant, i, userInput.text))
                  => response'.rule \in ElseBranches)]_vars

\* An utterance that passes no branch, answered in a conversation that has
\* a history and topics behind it.
C17_FallbackAfterHistory ==
  /\ InMain("synth")
  /\ variant = "smart_edge_voice_chat"
  /\ userInput = Some(T_hmm)
  /\ response.rule = "contextual"
  /\ response.ref # <<>>
  /\ Len(prof.history) > 2

RotationVariants ==
  {"fixed_edge_voice_chat", "push_to_talk_chat", "clean_exit_voice_chat"}

\* C18: under the rotation strategy the reply to an utterance, and the
\* profile left behind, are determined by the utterance and the profile
\* before it; two runs that start from the fresh profile and hear the same
\* utterances therefore go through the same profiles and give the same
\* replies, turn by turn.
C18_RotationRepliesDeterministic ==
  (variant \in RotationVariants /\ InMain("dispatch"))
    => Cardinality(Replies(variant, userInput.text, prof)) = 1

\* C19: in every variant the loop's exit test has the same outcome: once
\* the test of a transcript is behind the loop, the turn is the farewell
\* turn exactly when the lowercased transcript contains one of goodbye,
\* quit, exit, stop, bye.
C19_SameExitTestEverywhere ==
  ((InMain("dispatch") \/ InMain("synth")) /\ ~userInput.isNone)
    => (farewell <=> ContainsExitPhrase(userInput.text))

\* A signal was delivered while the loop's capture (recognizer.listen) was
\* waiting.
CaptureSignalled ==
  /\ IsClean
  /\ \E i \in 1..Len(sigAt) : sigAt[i] = "listen"

\* C20: in clean_exit, once a signal has arrived while a capture was
\* waiting, the loop never goes on to transcribe, dispatch, synthesize or
\* play: the capture hands no audio over, and no transcript, history entry,
\* reply, synthesis or playback comes into being from then on.
C20_SignalledCaptureIsDiscarded ==
  /\ [](CaptureSignalled
          => MainPc \notin AsrPcs \cup {"dispatch", "synth_ret"} \cup SynthPcs)
  /\ [][CaptureSignalled
          => /\ captured' = captured
             /\ userInput' = userInput
             /\ prof' = prof
             /\ response' = response
             /\ synthCalls' = synthCalls
             /\ written' = written
             /\ ~player']_vars

\* The program has ended after a signal that arrived during its first
\* capture: nothing was captured, heard or said.
C20_EndedFromCapture ==
  /\ CaptureSignalled
  /\ sigAt[1] = "listen"
  /\ InMain("done")
  /\ ~captured
  /\ userInput.isNone
  /\ prof = FreshProfile
  /\ cleanups >= 2

\* sf.write has just written the artifact of the call in progress.
ArtifactWritten == InMain("write") /\ written' # written

\* C21: in every variant, the waveform sf.write puts into the artifact has
\* peak absolute amplitude 0.8 of full scale when the waveform returned by
\* tts.infer has a nonzero peak, and is the all-zero waveform itself when
\* that waveform is silent.
C21_ArtifactPeakIsTarget ==
  [][ArtifactWritten
       => /\ Peak(wav) > 0 => Peak(wav') = 8
          /\ Peak(wav) = 0 => wav' = wav]_vars

\* The variants that keep a conversation_history.
HistoryVariants ==
  {"voice_chat", "fast_voice_chat", "fixed_edge_voice_chat",
   "push_to_talk_chat", "smart_edge_voice_chat", "clean_exit_voice_chat"}

IsPrefix(s, t) == Len(s) <= Len(t) /\ SubSeq(t, 1, Len(s)) = s

\* C22: conversation_history only grows at its end, so every earlier
\* history of the session is a prefix of every later one; and a completed
\* turn that is not the exit turn appends exactly the user utterance
\* followed by the assistant reply.
C22_HistoryAppendOnlyByTurns ==
  /\ [][IsPrefix(prof.history, prof'.history)]_vars
  /\ [][(variant \in HistoryVariants /\ InMain("dispatch") /\ ~farewell
           /\ MainPc' = "synth")
          => prof'.history =
               prof.history \o << UserEntry(userInput.text),
                                  AssistantEntry(response') >>]_vars

\* The topics extract_keywords found in the first n utterances of a history.
TopicsUpTo(h, n) ==
  UNION { ExtractKeywords(h[i].text) : i \in { k \in 1..n : h[k].speaker = "user" } }

\* The topics that were added to topics_discussed last: those the latest
\* utterance that brought a new topic brought.
LatestAdded(h) ==
  LET adding == { n \in 1..Len(h) :
                    h[n].speaker = "user"
                      /\ ExtractKeywords(h[n].text) \ TopicsUpTo(h, n - 1) # {} }
  IN  IF adding = {} THEN {}
      ELSE LET n == CHOOSE k \in adding : \A j \in adding : j <= k
           IN  ExtractKeywords(h[n].text) \ TopicsUpTo(h, n - 1)

\* The topics the text of a contextual reply names: the first text joins
\* all of recent_topics, the other three name recent_topics[0].
Referenced(r) ==
  IF r.ref = <<>> THEN {}
  ELSE IF r.idx = 0 THEN { r.ref[i] : i \in 1..Len(r.ref) } ELSE { r.ref[1] }

\* C23: in smart_edge, a reply to an utterance that passes no branch, given
\* with more than 2 earlier turns in the history, names a topic that was
\* added to topics_discussed last when there is any topic, and comes from
\* the generic pool when there is none.
C23_FallbackNamesLatestTopic ==
  (/\ variant = "smart_edge_voice_chat"
   /\ InMain("synth")
   /\ response.rule \in ElseBranches
   /\ Len(prof.history) > 3)
    => IF prof.topics # {}
       THEN /\ response.rule = "contextual"
            /\ Referenced(response) \cap LatestAdded(prof.history) # {}
       ELSE response.rule = "contextual_generic"

\* C24: in every voice variant the ambient-noise calibration has run
\* exactly once by the time the conversation loop exists, hence before the
\* first capture, and no step of the session, on the control thread or on
\* a capture worker, runs it again.
C24_CalibratedOnceBeforeLoop ==
  /\ [](variant \in SpeechVariants => calibrations = 1)
  /\ [][calibrations' = calibrations]_vars

\* Push-to-talk has recorded chunks in a second utterance's capture, with
\* the one calibration of the constructor behind it.
C24_SecondCaptureSameCalibration ==
  /\ IsPtt
  /\ Len(workers) = 2
  /\ audioData # <<>>
  /\ calibrations = 1

\* A call of cleanup() has gone through its loop and is about to return.
CleanupFinished == IsClean /\ Top.pc = "cl_iter" /\ Top.todo = {}

\* A step of a call of cleanup(): its start from the finally block, or a
\* step of its loop.
CleanupStep ==
  /\ IsClean
  /\ Top.pc \in CleanupPcs
  /\ sigAt' = sigAt

C26_EverySignalEntersHandler ==
  /\ []((IsClean /\ MainPc # "done" /\ Len(sigAt) < MaxSignals) => ENABLED Signal)
  /\ [](IsClean => exitStatus # "killed")
  /\ [][(IsClean /\ sigAt' # sigAt)
          => /\ ~running'
             /\ cleanups' = cleanups + 1
             /\ Len(frames') = Len(frames) + 1
             /\ Top'.pc = "cl_iter"
             /\ SubSeq(frames', 1, Len(frames)) = frames]_vars

\* A signal arrived during playback and its handler is running.
C26_HandlerDuringPlayback ==
  /\ IsClean
  /\ sigAt = << "playing" >>
  /\ Len(frames) = 2
  /\ MainPc = "playing"
  /\ ~running

\* A signal has cleared self.running.
Halting == IsClean /\ ~running

\* C27: in clean_exit, once a signal has cleared running, no capture, no
\* transcription, no synthesis and no playback is started any more and
\* running stays cleared; and the program comes to its end, also when the
\* SystemExit of the handler was swallowed by a bare except.
C27_HaltingStartsNothingAndEnds ==
  /\ [][Halting
          => /\ ~running'
             /\ ~(MainPc' = "listen" /\ MainPc # "listen")
             /\ ~(MainPc' = "asr" /\ MainPc # "asr")
             /\ ~(wav' # NoWave /\ wav = NoWave)
             /\ ~(player' /\ ~player)]_vars
  /\ (Halting ~> InMain("done"))

\* The program has ended after a signal whose SystemExit was swallowed by
\* the bare except around the removal of the artifact.
C27_EndedAfterSwallowedExit ==
  /\ IsClean
  /\ Len(sigAt) = 1
  /\ sigAt[1] \in {"remove", "removed"}
  /\ InMain("done")
  /\ exitStatus = "ok"
  /\ ~running
  /\ farewell = FALSE

\* C28: a capture worker of push_to_talk ends only when is_recording has
\* been cleared; in particular a chunk wait that ends without audio leaves
\* the worker running.
C28_WorkerEndsOnlyAfterRelease ==
  [][\A i \in 1..Len(workers) :
       (workers[i].pc # "w_done" /\ workers'[i].pc = "w_done") => ~isRecording]_vars

\* C29: in push_to_talk is_recording is true only inside
\* listen_with_push_to_talk, between the start of the recording and the
\* release; once the call has been left, on any path, it is false.
C29_NotRecordingOutsideCapture ==
  (IsPtt /\ MainPc \notin ListenPcs \cup AsrPcs) => ~isRecording

\* C30: in push_to_talk the buffer combined for an utterance holds only
\* chunks recorded by the worker started for that utterance (the last one
\* started), none recorded by the worker of an earlier utterance.
C30_BufferHoldsOwnWorkersChunks ==
  (IsPtt /\ InMain("ptt_read"))
    => \A k \in 1..Len(audioData) : audioData[k].w = Len(workers)

-----------------------------------------------------------------------------
(* Properties: the combined audio of push_to_talk.                         *)

\* Byte number j of the chunk at place p of buffer b sits at this place of
\* the concatenation.
PlaceOf(p, j) == (p - 1) * ChunkBytes + j

\* s holds the bytes of the chunks of b, chunk after chunk in the order of
\* b, each chunk once and whole.
IsConcatenationOf(s, b) ==
  /\ Len(s) = ChunkBytes * Len(b)
  /\ \A p \in 1..Len(b) : \A j \in 1..ChunkBytes :
       s[PlaceOf(p, j)] = [w |-> b[p].w, k |-> b[p].k, j |-> j]

-----------------------------------------------------------------------------
(* Conversations with the dispatchers that remember a name.                *)

T_im_bob == <<"I","'","m"," ","B","o","b">>

\* What the user says in these conversations: two self-introductions with
\* different names, a greeting, a farewell, and a question that has the
\* word "is" but no cue.
NameUtterances == {T_dave, T_im_bob, T_hello, T_bye, T_what_time}

\* listen_for_speech / listen_with_push_to_talk returning a text.
HearName ==
  /\ MainPc \in {"listen", "ptt_start"}
  /\ Len(frames) = 1
  /\ turns < MaxUtterances
  /\ \E u \in NameUtterances : userInput' = Some(u)
  /\ captured' = TRUE
  /\ GotoMain("check")
  /\ UNCHANGED << variant, useWhisper, cwdIsTemp, running, files, player,
               response, farewell, outPath, prof, lastStamp, isRecording,
               audioData, workers, micHolder, sigAt, exitStatus, exitCause,
               turns, synthCalls, written, cleanups, deletions, synthErr, wav,
               calibrations, combined >>

InitName == Init /\ variant \in NameMemoryVariants

NextName == LoopTop \/ HearName \/ Check \/ Dispatch \/ Spoken

SpecName == InitName /\ [][NextName]_vars

\* One of the cues 'my name is', 'i am', "i'm" is in the lowercased text.
HasCue(text) == \E i \in 1..Len(NameCues) : IsSubstr(NameCues[i], Lower(text))

DispatchReturns == InMain("dispatch") /\ MainPc' = "synth"

\* C33: a reply of the greeting rule or of the goodbye rule carries the
\* stored name: the name stored before the call when there was one, the one
\* the call itself stored otherwise, and no name while none is stored.
C33_GreetingAndGoodbyeCarryStoredName ==
  [][(DispatchReturns /\ response'.rule \in {"greeting", "goodbye"}) =>
       /\ response'.name = prof'.userName
       /\ (prof.userName # <<>> => response'.name = prof.userName)]_vars

\* A farewell dispatched after the name was stored in an earlier turn
\* carries that name.
C33_GoodbyeWithStoredName ==
  /\ InMain("synth")
  /\ Len(prof.history) = 2
  /\ prof.history[1].text = T_dave
  /\ prof.history[2].text = T_bye
  /\ response.rule = "goodbye"
  /\ response.name = <<"i","s">>

-----------------------------------------------------------------------------
(* Long conversations with the two dispatchers that rotate by              *)
(* response_count.                                                         *)

\* Utterances per conversation, enough to pass the end of both pools, and
\* how many of them may be greetings.
MaxRotations == 16
MaxGreetings == 2

CountedVariants == {"fixed_edge_voice_chat", "push_to_talk_chat"}

GreetingsHeard ==
  Cardinality({ i \in 1..Len(prof.history) : prof.history[i].text = T_hello })

\* listen_for_speech / listen_with_push_to_talk returning a text: one that
\* falls through to the pool, or a greeting.
HearRotate ==
  /\ MainPc \in {"listen", "ptt_start"}
  /\ Len(frames) = 1
  /\ turns < MaxRotations
  /\ \E u \in {T_hmm, T_hello} :
       /\ u = T_hello => GreetingsHeard < MaxGreetings
       /\ userInput' = Some(u)
  /\ captured' = TRUE
  /\ GotoMain("check")
  /\ UNCHANGED << variant, useWhisper, cwdIsTemp, running, files, player,
               response, farewell, outPath, prof, lastStamp, isRecording,
               audioData, workers, micHolder, sigAt, exitStatus, exitCause,
               turns, synthCalls, written, cleanups, deletions, synthErr, wav,
               calibrations, combined >>

InitRotate == Init /\ variant \in CountedVariants

NextRotate == LoopTop \/ HearRotate \/ Check \/ Dispatch \/ Spoken

SpecRotate == InitRotate /\ [][NextRotate]_vars

\* len(responses) of the final else branch.
FallbackTexts(v) == IF v = "fixed_edge_voice_chat" THEN 15 ELSE 10

\* C34: in fixed_edge and push_to_talk response_count grows by exactly 1
\* in every dispatcher call, pool used or not, changes in no other step and
\* never decreases; a fallback reply is the pool entry at the counter's
\* value after the increment, modulo the pool's length.
C34_CounterStepsByOneAndIndexesPool ==
  /\ [][DispatchReturns => prof'.responseCount = prof.responseCount + 1]_vars
  /\ [][prof'.responseCount # prof.responseCount => DispatchReturns]_vars
  /\ [][prof'.responseCount >= prof.responseCount]_vars
  /\ [][(DispatchReturns /\ response'.rule = "default") =>
          response'.idx = prof'.responseCount % FallbackTexts(variant)]_vars

\* The rotation has passed the end of the pool: the sixteenth call of
\* fixed_edge, a fallback after two greetings, returns the text at index 1.
C34_RotationWrapped ==
  /\ variant = "fixed_edge_voice_chat"
  /\ InMain("synth")
  /\ prof.responseCount = 16
  /\ GreetingsHeard = 2
  /\ response.rule = "default"
  /\ response.idx = 1

-----------------------------------------------------------------------------
(* Properties: the empty transcript.                                       *)

\* C35: in every variant and on both transcription paths an empty
\* transcript counts as a failed transcription: the dispatcher is never
\* called with it, it is never appended to the history and no reply to it
\* is synthesized; the loop goes back to the capture.
C35_EmptyTranscriptNeverDispatched ==
  /\ (MainPc \in {"dispatch", "synth"} /\ ~userInput.isNone) => userInput.text # <<>>
  /\ \A i \in 1..Len(prof.history) :
       prof.history[i].speaker = "user" => prof.history[i].text # <<>>

-----------------------------------------------------------------------------
(* Properties: failing removals in cleanup().                              *)

\* The executing call of cleanup() takes a step of its own: no signal is
\* delivered and no frame is pushed or popped.
OwnCleanupStep ==
  /\ IsClean
  /\ Top.pc \in CleanupPcs
  /\ sigAt' = sigAt
  /\ Len(frames') = Len(frames)

\* The executing call of cleanup() ends: its frame is popped or, in the
\* finally block, the program ends.
CleanupEnds ==
  /\ IsClean
  /\ Top.pc \in {"cl_iter", "cl_rm"}
  /\ sigAt' = sigAt
  /\ \/ Len(frames') < Len(frames)
     \/ Len(frames) = 1 /\ MainPc' \notin CleanupPcs

\* C36: cleanup() of clean_exit does not raise when a removal fails: the
\* failure is swallowed where it happens, the loop goes on with the names
\* it had left, every name it takes from the listing gets its removal
\* attempt, and the call ends only by returning, with no name left.
C36_RemovalFailureSwallowed ==
  /\ [][(OwnCleanupStep /\ Top'.failed # Top.failed) =>
          /\ frames' = [frames EXCEPT ![Len(frames)].pc = "cl_iter",
                                      ![Len(frames)].failed = Top.failed \cup {Top.cur}]
          /\ exitStatus' = exitStatus
          /\ exitCause' = exitCause
          /\ running' = running]_vars
  /\ [][(OwnCleanupStep /\ Top.pc = "cl_iter" /\ Top.todo # {}) =>
          /\ Top'.pc = "cl_rm"
          /\ Top'.cur \in Top.todo
          /\ Top'.todo = Top.todo \ {Top'.cur}]_vars
  /\ [][(OwnCleanupStep /\ Top.pc = "cl_rm") =>
          /\ Top'.pc = "cl_iter"
          /\ Top'.todo = Top.todo
          /\ \/ [dir |-> "tmp", name |-> Top.cur] \notin files'
             \/ Top.cur \in Top'.failed]_vars
  /\ [][CleanupEnds =>
          /\ Top.pc = "cl_iter"
          /\ Top.todo = {}
          /\ (Len(frames) = 1 => (MainPc' = "done" /\ exitStatus' = "ok"))]_vars

\* After a removal has failed the same call of cleanup() is at the removal
\* of another name.
C36_RemovalAttemptedAfterFailure ==
  /\ IsClean
  /\ Top.pc = "cl_rm"
  /\ Top.failed # {}
  /\ Top.cur \notin Top.failed
  /\ [dir |-> "tmp", name |-> Top.cur] \in files

-----------------------------------------------------------------------------
(* Properties: two sessions in one temp directory.                         *)

\* The paths this session has written.
OwnArtifacts == { written[i] : i \in 1..Len(written) }

\* C37: cleanup() of clean_exit removes only artifacts its own session
\* wrote: with a second session writing into the same temp directory,
\* nothing this session deletes was written by the other one.
C37_CleanupDeletesOnlyOwnArtifacts ==
  \A i \in 1..Len(deletions) : deletions[i] \in OwnArtifacts

-----------------------------------------------------------------------------
(* Properties: the temporary file of the Whisper path.                     *)

WhisperTmpFile == [dir |-> "tmp", name |-> WhisperTmpName]

\* The transcription function hands its result (a text or None) back to
\* the loop.
TranscriptionReturns == MainPc \in AsrPcs /\ MainPc' = "check"

\* C38: on every Whisper path the temporary WAV written for the
\* transcription is gone when the function returns, whatever the outcome
\* (a text, an empty transcript, a transcription that raised, running
\* cleared meanwhile).
C38_WhisperTmpGoneOnReturn ==
  [][TranscriptionReturns => WhisperTmpFile \notin files']_vars

=============================================================================
